---------------------------- MODULE Spec2Model ----------------------------
(***************************************************************************)
(* A model of the csi-scaleio volume-lifecycle controller                  *)
(* (service/controller.go, service/service.go, provider/provider.go).     *)
(*                                                                         *)
(* Every inbound RPC runs on a worker (one goroutine per call).  A handler *)
(* is cut into steps at the points where it calls the ScaleIO gateway or   *)
(* takes one of the service's locks; the local computation between two     *)
(* such points belongs to the step that precedes it.  The gateway (the     *)
(* goscaleio client) is an external collaborator: each of its calls is one *)
(* atomic step on the backend state and may fail for transport reasons.    *)
(***************************************************************************)
EXTENDS Integers, Sequences, FiniteSets, TLC

VARIABLES
    bvols,        \* backend: ids of the existing volumes, in listing order
    bvol,         \* backend: per volume id, its record (mappings, flags, size)
    adminClient,  \* service.adminClient # nil
    token,        \* adminClient.GetToken() # ""
    system,       \* service.system # nil
    volCache,     \* service.volCache: the snapshot served by ListVolumes
    sdcMap,       \* service.sdcMap: upper-cased GUID -> SDC id ("" = absent)
    held,         \* per worker: the service's RW locks it holds, and how
    pc,           \* per worker: the handler step it is at
    req,          \* per worker: the request it serves
    loc,          \* per worker: the handler's local variables
    res,          \* per worker: the status code and response of the finished RPC
    calls,        \* per worker: the gateway calls the current RPC has issued
    probed,       \* history: some ControllerProbe has returned success
    lastCall,     \* history: the last mutating gateway call and what it met
    crashed,      \* the process died of a Go runtime panic
    opts,         \* service.opts names endpoint, user, password and system
    vs,           \* validateVolSize harness: the input drawn and the result
    pg            \* paging client: the token chain and the entries collected

vars == <<bvols, bvol, adminClient, token, system, volCache, sdcMap, held,
          pc, req, loc, res, calls, probed, lastCall, crashed, opts, vs, pg>>

backendVars == <<bvols, bvol>>
serviceVars == <<adminClient, token, system, volCache, sdcMap, held, opts>>
workerVars  == <<pc, req, loc, res, calls>>

-----------------------------------------------------------------------------
(* Sizes.  The handler computes in uint64 bytes; 8 GiB = 2^33 bytes does   *)
(* not fit the model checker's integers, so a byte count is kept as three  *)
(* limbs  g * 2^30 + k * 2^10 + b  with 0 <= k < 2^20 and 0 <= b < 2^10,   *)
(* and KiB and GiB counts are plain integers.                              *)

bytesInKiB == 1024
kiBytesInGiB == 1024 * 1024
VolSizeMultipleGiB == 8
DefaultVolumeSizeKiB == 16 * kiBytesInGiB

\* Largest GiB limb of a requested size or limit.
MaxGiB == 17

Bytes(g, k, b) == [g |-> g, k |-> k, b |-> b]
ZeroBytes == Bytes(0, 0, 0)

\* x > y on byte counts (uint64 comparison).
BytesGT(x, y) ==
    \/ x.g > y.g
    \/ x.g = y.g /\ x.k > y.k
    \/ x.g = y.g /\ x.k = y.k /\ x.b > y.b

BytesGE(x, y) == x = y \/ BytesGT(x, y)

\* x / bytesInKiB, uint64 division: the byte limb is dropped.
BytesDivKiB(x) == x.g * kiBytesInGiB + x.k

\* n * bytesInGiB as a byte count.
GiBToBytes(n) == Bytes(n, 0, 0)

\* n KiB as a byte count.
KiBToBytes(n) == Bytes(n \div kiBytesInGiB, n % kiBytesInGiB, 0)

\* The byte counts requests carry: every GiB limb up to MaxGiB, with the
\* remainders at and next to the unit boundaries.
ByteInputs ==
    { Bytes(g, k, b) : g \in 0..MaxGiB, k \in {0, 1, kiBytesInGiB - 1},
                       b \in {0, 1, bytesInKiB - 1} }

-----------------------------------------------------------------------------
(* validateVolSize (controller.go): the size in KiB to create, or the      *)
(* OutOfRange error.  cr = [required |-> bytes, limit |-> bytes].          *)

\* The size in GiB after the rounding step of lines 153-157.
RoundedGiB(sizeGiB) ==
    LET mod == sizeGiB % VolSizeMultipleGiB
    IN  IF mod > 0 THEN sizeGiB - mod + VolSizeMultipleGiB ELSE sizeGiB

\* Mutant: a limit equal to the rounded size is rejected as well.
LimitExceeded_mut(sizeGiB, maxSize) ==
    maxSize # ZeroBytes /\ BytesGE(GiBToBytes(sizeGiB), maxSize)

\* Lines 159-165: a non-zero limit smaller than the rounded size.
LimitExceeded(sizeGiB, maxSize) ==
    maxSize # ZeroBytes /\ BytesGT(GiBToBytes(sizeGiB), maxSize)

\* Mutant: a required size of 0 is not replaced by the default.
validateVolSize_mut(cr) ==
    LET minSize == BytesDivKiB(cr.required)
        sizeGiB == RoundedGiB(minSize \div kiBytesInGiB)
    IN  IF LimitExceeded(sizeGiB, cr.limit)
        THEN [err |-> "OutOfRange", sizeKiB |-> 0, sizeGiB |-> sizeGiB]
        ELSE [err |-> "OK", sizeKiB |-> sizeGiB * kiBytesInGiB,
              sizeGiB |-> sizeGiB]

\* Lines 134-169.
validateVolSize(cr) ==
    LET minSize == IF cr.required = ZeroBytes
                   THEN DefaultVolumeSizeKiB
                   ELSE BytesDivKiB(cr.required)
        sizeGiB == RoundedGiB(minSize \div kiBytesInGiB)
    IN  IF LimitExceeded(sizeGiB, cr.limit)
        THEN [err |-> "OutOfRange", sizeKiB |-> 0, sizeGiB |-> sizeGiB]
        ELSE [err |-> "OK", sizeKiB |-> sizeGiB * kiBytesInGiB,
              sizeGiB |-> sizeGiB]

-----------------------------------------------------------------------------
(* The domain.                                                             *)

\* Number of volume ids the backend can hand out.  An id is never reused.
MaxVols == 3

VolIds == 1..MaxVols

W1 == "w1"
W2 == "w2"
Workers == {W1, W2}

\* SDC GUIDs as clients send them (any case) and strings.ToUpper of each.
\* The backend knows the SDCs with GUID "A" and "B"; "X" is not registered.
NodeIds == {"a", "A", "B", "X"}
\* A variant that leaves the GUID as it was given.
ToUpper_mut(g) == g
ToUpper(g) == IF g = "a" THEN "A" ELSE g
SdcOf(guid) == IF guid = "A" THEN "sdcA" ELSE IF guid = "B" THEN "sdcB" ELSE ""
SdcIds == {"sdcA", "sdcB"}

Modes == {"UNKNOWN", "SINGLE_NODE_WRITER", "SINGLE_NODE_READER_ONLY",
          "MULTI_NODE_READER_ONLY", "MULTI_NODE_SINGLE_WRITER",
          "MULTI_NODE_MULTI_WRITER"}

thinProvisioned == "ThinProvisioned"
thickProvisioned == "ThickProvisioned"

\* A backend volume (siotypes.Volume): MappedSdcInfo as the set of SDC ids,
\* MappingToAllSdcsEnabled, SizeInKb.  state: free (id not handed out yet),
\* live, gone (removed).
FreeVol == [state |-> "free", mapped |-> {}, multi |-> FALSE, sizeKiB |-> 0]
LiveVol(m, mu, sz) == [state |-> "live", mapped |-> m, multi |-> mu, sizeKiB |-> sz]

NoCr == [required |-> ZeroBytes, limit |-> ZeroBytes]

\* A request.  Only the fields its op reads matter; the others keep these
\* values.
NoReq == [op |-> "none", vol |-> 0, node |-> "", mode |-> "", block |-> FALSE,
          cr |-> NoCr, hasPool |-> FALSE, hasName |-> FALSE,
          startToken |-> "", maxEntries |-> 0, caps |-> <<>>,
          hasThick |-> FALSE, thick |-> ""]

CreateReq(cr, hasPool, hasName) ==
    [NoReq EXCEPT !.op = "CreateVolume", !.cr = cr, !.hasPool = hasPool,
                  !.hasName = hasName]
\* A CreateVolume request with pool and name whose parameters hold the
\* key thickprovisioning (service.go 29-31) with value tp.
CreateThickReq(cr, tp) ==
    [CreateReq(cr, TRUE, TRUE) EXCEPT !.hasThick = TRUE, !.thick = tp]
DeleteReq(v) == [NoReq EXCEPT !.op = "DeleteVolume", !.vol = v]
PublishReq(v, n, m, b) ==
    [NoReq EXCEPT !.op = "ControllerPublishVolume", !.vol = v, !.node = n,
                  !.mode = m, !.block = b]
UnpublishReq(v, n) ==
    [NoReq EXCEPT !.op = "ControllerUnpublishVolume", !.vol = v, !.node = n]
ListReq(t, k) ==
    [NoReq EXCEPT !.op = "ListVolumes", !.startToken = t, !.maxEntries = k]
ProbeReq == [NoReq EXCEPT !.op = "ControllerProbe"]
ValidateReq(v, vcs) ==
    [NoReq EXCEPT !.op = "ValidateVolumeCapabilities", !.vol = v, !.caps = vcs]
GetCapacityReq == [NoReq EXCEPT !.op = "GetCapacity"]
GetCapabilitiesReq == [NoReq EXCEPT !.op = "ControllerGetCapabilities"]

\* A handler's locals.
NoLoc == [mapped |-> {}, multi |-> FALSE, sdcID |-> "", sizeKiB |-> 0,
          id |-> 0, startToken |-> 0, lvols |-> 0, n |-> 0, sioVols |-> <<>>,
          volErr |-> "", sdcErr |-> "", probedAtStart |-> FALSE]

\* A finished RPC: the status code, the status text (msg), and the
\* response's fields.
NoRes == [code |-> "", id |-> 0, sizeKiB |-> 0, entries |-> <<>>,
          nextToken |-> "", supported |-> FALSE, message |-> "", msg |-> "",
          rpcs |-> <<>>]

NoCall == [op |-> "none", vol |-> 0, sdc |-> "", before |-> {}, multi |-> FALSE,
           sizeKiB |-> 0, allowMultipleMappings |-> FALSE, allSdcs |-> FALSE,
           volType |-> ""]

\* The provider struct (provider.go 130-135) as New returns it: no gRPC
\* server, not closed; with it, the services registered on the server,
\* whether the server is serving, and the error of the last Serve call.
NoProvider == [server |-> FALSE, closed |-> FALSE, registered |-> {},
               serving |-> FALSE, err |-> ""]
\* A local attachment (goscaleio.SdcMappedVolume): the volume's id and the
\* block device the SDC exposes it as.  NoMappedVol is the nil pointer.
SdcMappedVolume(id, dev) == [VolumeID |-> id, SdcDevice |-> dev]
NoMappedVol == SdcMappedVolume(0, "")
\* The node: the attachments the SDC reports (GetLocalVolumeMap), the calls
\* made to publishVolume and unpublishVolume so far, and the last call
\* served with its outcome (failed: a collaborator call returned an error).
NoNodeRes == [op |-> "none", id |-> 0, code |-> "", failed |-> FALSE,
              vol |-> NoMappedVol, published |-> FALSE, info |-> 0]
NoHost == [localVols |-> <<>>, actions |-> <<>>, last |-> NoNodeRes]
NoVs == [phase |-> "off", cr |-> NoCr, err |-> "", sizeKiB |-> 0, sizeGiB |-> 0,
         env |-> <<>>, usi |-> <<>>, srv |-> NoProvider, host |-> NoHost]
NoPg == [script |-> "off", phase |-> "off", k |-> 0, token |-> "", got |-> <<>>,
         r |-> NoReq, mappedAfterFirst |-> {}, created |-> 0,
         auths |-> 0, finds |-> 0]

Live == {v \in VolIds : bvol[v].state = "live"}
FreeIds == {v \in VolIds : bvol[v].state = "free"}
Min(S) == CHOOSE x \in S : \A y \in S : x <= y

\* The state right after service.New(): nothing probed, empty caches.
InitService ==
    /\ adminClient = FALSE /\ token = FALSE /\ system = FALSE
    /\ volCache = <<>>
    /\ sdcMap = [g \in {ToUpper(n) : n \in NodeIds} |-> ""]
    /\ probed = FALSE

\* The state after one successful ControllerProbe.
InitProbedService ==
    /\ adminClient = TRUE /\ token = TRUE /\ system = TRUE
    /\ volCache = <<>>
    /\ sdcMap = [g \in {ToUpper(n) : n \in NodeIds} |-> ""]
    /\ probed = TRUE

InitWorkers ==
    /\ pc = [w \in Workers |-> "idle"]
    /\ req = [w \in Workers |-> NoReq]
    /\ loc = [w \in Workers |-> NoLoc]
    /\ res = [w \in Workers |-> NoRes]
    /\ calls = [w \in Workers |-> {}]
    /\ held = [w \in Workers |-> {}]
    /\ lastCall = NoCall
    /\ crashed = FALSE

\* A backend holding the first n volume ids, unmapped, created by nobody
\* in particular.
BackendWith(n, multis) ==
    /\ bvols = [i \in 1..n |-> i]
    /\ bvol = [v \in VolIds |->
                 IF v <= n THEN LiveVol({}, v \in multis, DefaultVolumeSizeKiB)
                 ELSE FreeVol]

-----------------------------------------------------------------------------
(* Handler plumbing.                                                       *)

\* The text of a gRPC status built by status.Error, status.Errorf or a gocsi
\* error value: the handlers pass a literal or formatted text, which is
\* never empty; a success has no status text.
StatusText(c) == IF c = "OK" THEN "" ELSE "error text"

Code(c) == [NoRes EXCEPT !.code = c, !.msg = StatusText(c)]

\* The RPC of worker w returns r.
Return(w, r) ==
    /\ pc' = [pc EXCEPT ![w] = "done"]
    /\ res' = [res EXCEPT ![w] = r]

\* Worker w picks up request r.
Begin(w, r) ==
    /\ ~crashed
    /\ pc[w] = "idle"
    /\ req' = [req EXCEPT ![w] = r]

\* The response of worker w's RPC has been delivered: the worker is free
\* for the next request.
Finish(w) ==
    /\ ~crashed
    /\ pc[w] = "done"
    /\ pc' = [pc EXCEPT ![w] = "idle"]
    /\ req' = [req EXCEPT ![w] = NoReq]
    /\ loc' = [loc EXCEPT ![w] = NoLoc]
    /\ res' = [res EXCEPT ![w] = NoRes]
    /\ calls' = [calls EXCEPT ![w] = {}]
    /\ UNCHANGED <<backendVars, serviceVars, probed, lastCall, crashed>>

At(w, label) == ~crashed /\ pc[w] = label
Goto(w, label) == pc' = [pc EXCEPT ![w] = label]

FreshLoc == [NoLoc EXCEPT !.probedAtStart = probed]

\* A gateway call succeeds only if the transport is up and the client holds
\* a token (the gateway refuses an unauthenticated client).
GwOK(up) == up /\ token

\* s.adminClient == nil: "Controller Service has not been probed".
NotProbed == ~adminClient

\* getVolByID (service.go): the gateway's answer for one volume id.
getVolByID(id, up) ==
    IF ~GwOK(up) THEN [err |-> "transport"]
    ELSE IF bvol[id].state # "live" THEN [err |-> "notfound"]
    ELSE [err |-> "", mapped |-> bvol[id].mapped, multi |-> bvol[id].multi,
          sizeKiB |-> bvol[id].sizeKiB]

\* clearCache (controller.go): the snapshot is replaced by an empty one.
clearCache == volCache' = <<>>

\* The sections of the handlers that run under one of the service's
\* sync.RWMutex locks (service.go 70-74): the step label at which the
\* section starts, the lock, and whether it is taken for reading (RLock)
\* or for writing (Lock).
LockAt(label) ==
    CASE label = "list_len" -> <<"volCacheRWL", "R">>
      [] label = "list_store" -> <<"volCacheRWL", "W">>
      [] label = "list_copy" -> <<"volCacheRWL", "R">>
      [] label = "create_clear" -> <<"volCacheRWL", "W">>
      [] label = "delete_clear" -> <<"volCacheRWL", "W">>
      [] label = "sdc_lookup" -> <<"sdcMapRWL", "R">>
      [] label = "sdc_store" -> <<"sdcMapRWL", "W">>
      [] OTHER -> <<>>

\* sync.RWMutex: a writer excludes everybody, readers exclude writers.
CanLock(w, l) ==
    \A o \in Workers \ {w} :
      \A h \in held[o] :
        h[1] = l[1] => (h[2] = "R" /\ l[2] = "R")

\* Lock() or RLock() at the start of a locked section: the worker blocks
\* until the lock is free for it.
Acquire(w) ==
    /\ ~crashed
    /\ LockAt(pc[w]) # <<>>
    /\ held[w] = {}
    /\ CanLock(w, LockAt(pc[w]))
    /\ held' = [held EXCEPT ![w] = {LockAt(pc[w])}]
    /\ UNCHANGED <<backendVars, adminClient, token, system, volCache, sdcMap,
                   opts, workerVars, probed, lastCall, crashed>>

\* The worker is inside the locked section that starts at its label.
Holds(w) == held[w] = {LockAt(pc[w])}

\* A variant of the deferred unlock that leaves the lock held.
Release_mut(w) == held' = held

\* The deferred Unlock() or RUnlock() at the end of a locked section.
Release(w) == held' = [held EXCEPT ![w] = {}]

-----------------------------------------------------------------------------
(* CreateVolume (controller.go 57-123).                                    *)

\* The status CreateVolume returns before it calls the gateway, "" if none.
CreateEarly(r) ==
    LET v == validateVolSize(r.cr)
    IN  IF NotProbed THEN "FailedPrecondition"
        ELSE IF v.err # "OK" THEN v.err
        ELSE IF ~r.hasPool THEN "InvalidArgument"
        ELSE IF ~r.hasName THEN "InvalidArgument"
        ELSE ""

\* strconv.ParseBool: the spellings it accepts; anything else is an error.
ParseBool(v) ==
    IF v \in {"1", "t", "T", "TRUE", "true", "True"}
    THEN [err |-> FALSE, b |-> TRUE]
    ELSE IF v \in {"0", "f", "F", "FALSE", "false", "False"}
    THEN [err |-> FALSE, b |-> FALSE]
    ELSE [err |-> TRUE, b |-> FALSE]

\* The environment variable of the thick-provisioning option
\* (envvars.go 30-32).
EnvThick == "X_CSI_SCALEIO_THICKPROVISIONING"

\* pb of BeforeServe (service.go 136-149): a variable that is not set or
\* does not parse counts as false.
pbOpts(env, n) ==
    IF n \in DOMAIN env
    THEN LET p == ParseBool(env[n])
         IN  IF p.err THEN FALSE ELSE p.b
    ELSE FALSE

\* s.opts.Thick (service.go 152), from the environment the service was
\* started in.
OptsThick == pbOpts(vs.env, EnvThick)

\* Mutant: the configured default wins over a parameter that asks for thin.
getVolProvisionType_mut(hasThick, thick, optsThick) ==
    LET tp == ParseBool(thick)
    IN  IF optsThick THEN thickProvisioned
        ELSE IF hasThick /\ ~tp.err /\ tp.b THEN thickProvisioned
        ELSE thinProvisioned

\* getVolProvisionType (service.go 163-182).  hasThick, thick: the request's
\* parameters hold the key thickprovisioning, and its value.
getVolProvisionType(hasThick, thick, optsThick) ==
    LET volType == IF optsThick THEN thickProvisioned ELSE thinProvisioned
        tp == ParseBool(thick)
    IN  IF hasThick
        THEN IF tp.err THEN volType
             ELSE IF tp.b THEN thickProvisioned
             ELSE thinProvisioned
        ELSE volType

\* Entry up to and including s.adminClient.CreateVolume.
CreateStart(w, r) ==
    /\ Begin(w, r)
    /\ r.op = "CreateVolume"
    /\ LET early == CreateEarly(r)
           size == validateVolSize(r.cr).sizeKiB
           volType == getVolProvisionType(r.hasThick, r.thick, OptsThick)
       IN  \/ /\ early # ""
              /\ Return(w, Code(early))
              /\ loc' = [loc EXCEPT ![w] = FreshLoc]
              /\ calls' = [calls EXCEPT ![w] = {}]
              /\ UNCHANGED <<backendVars, lastCall>>
           \/ /\ early = ""
              /\ calls' = [calls EXCEPT ![w] = {"CreateVolume"}]
              /\ \E up \in BOOLEAN :
                   IF GwOK(up) /\ FreeIds # {}
                   THEN LET id == Min(FreeIds)
                        IN  /\ bvol' = [bvol EXCEPT ![id] = LiveVol({}, FALSE, size)]
                            /\ bvols' = Append(bvols, id)
                            /\ lastCall' = [NoCall EXCEPT !.op = "CreateVolume",
                                                          !.vol = id,
                                                          !.sizeKiB = size,
                                                          !.volType = volType]
                            /\ loc' = [loc EXCEPT ![w] =
                                         [FreshLoc EXCEPT !.id = id, !.sizeKiB = size]]
                            /\ Goto(w, "create_get")
                            /\ UNCHANGED res
                   ELSE /\ Return(w, Code("Internal"))
                        /\ loc' = [loc EXCEPT ![w] = FreshLoc]
                        /\ lastCall' = [NoCall EXCEPT !.op = "CreateVolume",
                                                      !.sizeKiB = size,
                                                      !.volType = volType]
                        /\ UNCHANGED backendVars
    /\ UNCHANGED <<serviceVars, probed, crashed>>

\* s.getVolByID(createResp.ID), lines 109-113.
CreateGet(w) ==
    /\ At(w, "create_get")
    /\ calls' = [calls EXCEPT ![w] = @ \cup {"GetVolume"}]
    /\ \E up \in BOOLEAN :
         LET vol == getVolByID(loc[w].id, up)
         IN  IF vol.err # ""
             THEN /\ Return(w, Code("Unavailable"))
                  /\ UNCHANGED loc
             ELSE /\ Goto(w, "create_clear")
                  /\ loc' = [loc EXCEPT ![w].sizeKiB = vol.sizeKiB]
                  /\ UNCHANGED res
    /\ UNCHANGED <<backendVars, serviceVars, req, probed, lastCall, crashed>>

\* s.clearCache() and the response, lines 114-122.
CreateClear(w) ==
    /\ At(w, "create_clear")
    /\ Holds(w)
    /\ clearCache
    /\ Release(w)
    /\ Return(w, [Code("OK") EXCEPT !.id = loc[w].id, !.sizeKiB = loc[w].sizeKiB])
    /\ UNCHANGED <<backendVars, adminClient, token, system, sdcMap, opts,
                   req, loc, calls, probed, lastCall, crashed>>

-----------------------------------------------------------------------------
(* DeleteVolume (controller.go 171-213).                                   *)

\* Mutant: a single mapping does not count as in use.
VolumeInUse_mut(mapped) == Cardinality(mapped) > 1

\* Lines 196-200: len(vol.MappedSdcInfo) > 0, "volume in use".
VolumeInUse(mapped) == mapped # {}

\* Entry up to the check of the fetched volume's mappings.
DeleteStart(w, r) ==
    /\ Begin(w, r)
    /\ r.op = "DeleteVolume"
    /\ IF NotProbed
       THEN /\ Return(w, Code("FailedPrecondition"))
            /\ loc' = [loc EXCEPT ![w] = FreshLoc]
            /\ calls' = [calls EXCEPT ![w] = {}]
       ELSE /\ calls' = [calls EXCEPT ![w] = {"GetVolume"}]
            /\ \E up \in BOOLEAN :
                 LET vol == getVolByID(r.vol, up)
                 IN  IF vol.err = "notfound"
                     THEN /\ Return(w, Code("NotFound"))
                          /\ loc' = [loc EXCEPT ![w] = [FreshLoc EXCEPT !.volErr = vol.err]]
                     ELSE IF vol.err # ""
                     THEN /\ Return(w, Code("Internal"))
                          /\ loc' = [loc EXCEPT ![w] = [FreshLoc EXCEPT !.volErr = vol.err]]
                     ELSE /\ loc' = [loc EXCEPT ![w] =
                                       [FreshLoc EXCEPT !.id = r.vol,
                                                        !.mapped = vol.mapped,
                                                        !.multi = vol.multi]]
                          /\ IF VolumeInUse(vol.mapped)
                             THEN Return(w, Code("FailedPrecondition"))
                             ELSE Goto(w, "delete_remove") /\ UNCHANGED res
    /\ UNCHANGED <<backendVars, serviceVars, probed, lastCall, crashed>>

\* tgtVol.RemoveVolume(removeModeOnlyMe), lines 202-208.
DeleteRemove(w) ==
    /\ At(w, "delete_remove")
    /\ calls' = [calls EXCEPT ![w] = @ \cup {"RemoveVolume"}]
    /\ LET id == loc[w].id
       IN  \E up \in BOOLEAN :
             IF GwOK(up) /\ bvol[id].state = "live"
             THEN /\ bvol' = [bvol EXCEPT ![id] =
                                [state |-> "gone", mapped |-> {}, multi |-> FALSE,
                                 sizeKiB |-> 0]]
                  /\ bvols' = SelectSeq(bvols, LAMBDA x : x # id)
                  /\ lastCall' = [NoCall EXCEPT !.op = "RemoveVolume", !.vol = id,
                                                !.before = bvol[id].mapped]
                  /\ Goto(w, "delete_clear")
                  /\ UNCHANGED res
             ELSE /\ Return(w, Code("Internal"))
                  /\ lastCall' = [NoCall EXCEPT !.op = "RemoveVolume", !.vol = id,
                                                !.before = bvol[id].mapped]
                  /\ UNCHANGED backendVars
    /\ UNCHANGED <<serviceVars, req, loc, probed, crashed>>

\* s.clearCache() and the empty response, lines 210-212.
DeleteClear(w) ==
    /\ At(w, "delete_clear")
    /\ Holds(w)
    /\ clearCache
    /\ Release(w)
    /\ Return(w, Code("OK"))
    /\ UNCHANGED <<backendVars, adminClient, token, system, sdcMap, opts,
                   req, loc, calls, probed, lastCall, crashed>>

-----------------------------------------------------------------------------
(* ControllerPublishVolume (controller.go 215-320) and                     *)
(* ControllerUnpublishVolume (322-386).  Both fetch the volume, resolve    *)
(* the node id through getSDCID (service.go 195-225) and then decide.      *)

\* A variant without the rejection of the single-node modes for a volume
\* that is mapped to other SDCs.
PublishDecision_mut2(mode, block, mapped, multi, sdcID) ==
    IF mode = "UNKNOWN" THEN "InvalidArgument"
    ELSE IF mapped = {} THEN "map"
    ELSE IF sdcID \in mapped THEN "OK"
    ELSE IF ~multi THEN "AlreadyExists"
    ELSE IF mode \in {"MULTI_NODE_SINGLE_WRITER", "MULTI_NODE_MULTI_WRITER"}
         THEN "InvalidArgument"
    ELSE IF ~block THEN "AlreadyExists"
    ELSE "map"

\* Lines 261-302: what publish does once the SDC id is known, given the
\* volume as fetched: a status to return, or "map" to go on to the map call.
\* Mutant: the multi-mapping check comes before the search for the
\* requesting SDC among the mappings.
PublishDecision_mut(mode, block, mapped, multi, sdcID) ==
    IF mode = "UNKNOWN" THEN "InvalidArgument"
    ELSE IF mapped = {} THEN "map"
    ELSE IF ~multi THEN "AlreadyExists"
    ELSE IF sdcID \in mapped THEN "OK"
    ELSE IF mode \in {"SINGLE_NODE_WRITER", "SINGLE_NODE_READER_ONLY"}
         THEN "AlreadyExists"
    ELSE IF mode \in {"MULTI_NODE_SINGLE_WRITER", "MULTI_NODE_MULTI_WRITER"}
         THEN "InvalidArgument"
    ELSE IF ~block THEN "AlreadyExists"
    ELSE "map"

PublishDecision(mode, block, mapped, multi, sdcID) ==
    IF mode = "UNKNOWN" THEN "InvalidArgument"
    ELSE IF mapped = {} THEN "map"
    ELSE IF sdcID \in mapped THEN "OK"
    ELSE IF ~multi THEN "AlreadyExists"
    ELSE IF mode \in {"SINGLE_NODE_WRITER", "SINGLE_NODE_READER_ONLY"}
         THEN "AlreadyExists"
    ELSE IF mode \in {"MULTI_NODE_SINGLE_WRITER", "MULTI_NODE_MULTI_WRITER"}
         THEN "InvalidArgument"
    ELSE IF ~block THEN "AlreadyExists"
    ELSE "map"

\* A variant that unmaps without looking at the volume's mappings.
UnpublishDecision_mut(mapped, sdcID) == "unmap"

\* Lines 358-369: unpublish with the SDC id known.
UnpublishDecision(mapped, sdcID) ==
    IF sdcID \in mapped THEN "unmap" ELSE "OK"

\* The handler goes on after getSDCID returned sdcID.
Resolved(w, sdcID) ==
    LET d == IF req[w].op = "ControllerPublishVolume"
             THEN PublishDecision(req[w].mode, req[w].block, loc[w].mapped,
                                  loc[w].multi, sdcID)
             ELSE UnpublishDecision(loc[w].mapped, sdcID)
    IN  /\ loc' = [loc EXCEPT ![w].sdcID = sdcID]
        /\ IF d = "map" THEN Goto(w, "publish_map") /\ UNCHANGED res
           ELSE IF d = "unmap" THEN Goto(w, "unpublish_unmap") /\ UNCHANGED res
           ELSE Return(w, Code(d))

\* Entry of either handler up to the cache lookup of getSDCID.
PubUnpubStart(w, r) ==
    /\ Begin(w, r)
    /\ r.op \in {"ControllerPublishVolume", "ControllerUnpublishVolume"}
    /\ IF NotProbed
       THEN /\ Return(w, Code("FailedPrecondition"))
            /\ loc' = [loc EXCEPT ![w] = FreshLoc]
            /\ calls' = [calls EXCEPT ![w] = {}]
       ELSE /\ calls' = [calls EXCEPT ![w] = {"GetVolume"}]
            /\ \E up \in BOOLEAN :
                 LET vol == getVolByID(r.vol, up)
                 IN  IF vol.err = "notfound"
                     THEN /\ Return(w, Code("NotFound"))
                          /\ loc' = [loc EXCEPT ![w] = [FreshLoc EXCEPT !.volErr = vol.err]]
                     ELSE IF vol.err # ""
                     THEN /\ Return(w, Code("Internal"))
                          /\ loc' = [loc EXCEPT ![w] = [FreshLoc EXCEPT !.volErr = vol.err]]
                     ELSE /\ loc' = [loc EXCEPT ![w] =
                                       [FreshLoc EXCEPT !.id = r.vol,
                                                        !.mapped = vol.mapped,
                                                        !.multi = vol.multi]]
                          /\ Goto(w, "sdc_lookup")
                          /\ UNCHANGED res
    /\ UNCHANGED <<backendVars, serviceVars, probed, lastCall, crashed>>

\* getSDCID, lines 196-210: the read-locked lookup of the upper-cased GUID.
SdcLookup(w) ==
    /\ At(w, "sdc_lookup")
    /\ Holds(w)
    /\ LET id == sdcMap[ToUpper(req[w].node)]
       IN  IF id # "" THEN Resolved(w, id)
           ELSE Goto(w, "sdc_find") /\ UNCHANGED <<loc, res>>
    /\ Release(w)
    /\ UNCHANGED <<backendVars, adminClient, token, system, volCache, sdcMap,
                   opts, req, calls, probed, lastCall, crashed>>

\* getSDCID, lines 213-217: s.system.FindSdc.  s.system is nil until a probe
\* has found the system: the call then dereferences nil and the process dies.
\* Any error becomes NotFound in the handler (lines 246-249, 353-356),
\* whether the backend knows no such SDC or the call itself failed.
SdcFind(w) ==
    /\ At(w, "sdc_find")
    /\ IF ~system
       THEN /\ crashed' = TRUE
            /\ UNCHANGED <<pc, loc, res, calls>>
       ELSE /\ calls' = [calls EXCEPT ![w] = @ \cup {"FindSdc"}]
            /\ UNCHANGED crashed
            /\ \E up \in BOOLEAN :
                 LET id == SdcOf(ToUpper(req[w].node))
                 IN  IF GwOK(up) /\ id # ""
                     THEN /\ loc' = [loc EXCEPT ![w].sdcID = id]
                          /\ Goto(w, "sdc_store")
                          /\ UNCHANGED res
                     ELSE /\ Return(w, Code("NotFound"))
                          /\ loc' = [loc EXCEPT ![w].sdcErr =
                                       IF GwOK(up) THEN "nomatch"
                                       ELSE "transport"]
    /\ UNCHANGED <<backendVars, serviceVars, req, probed, lastCall>>

\* getSDCID, lines 219-224: the write-locked store, and the handler's
\* decision that follows the return.
SdcStore(w) ==
    /\ At(w, "sdc_store")
    /\ Holds(w)
    /\ sdcMap' = [sdcMap EXCEPT ![ToUpper(req[w].node)] = loc[w].sdcID]
    /\ Release(w)
    /\ Resolved(w, loc[w].sdcID)
    /\ UNCHANGED <<backendVars, adminClient, token, system, volCache, opts,
                   req, calls, probed, lastCall, crashed>>

\* Lines 304-308: the parameters of the map call: the resolved SDC,
\* AllowMultipleMappings "false", AllSdcs "".
MapVolumeSdcParam(sdcID) ==
    [NoCall EXCEPT !.sdc = sdcID, !.allowMultipleMappings = FALSE,
                   !.allSdcs = FALSE]

\* The gateway's addMappedSdc with AllowMultipleMappings "false" (lines
\* 304-308): it maps the volume to the SDC unless the volume is gone or is
\* mapped already.
GatewayMaps(id, sdcID, up) ==
    GwOK(up) /\ bvol[id].state = "live" /\ bvol[id].mapped = {}

\* targetVolume.MapVolumeSdc, lines 304-319.
PublishMap(w) ==
    /\ At(w, "publish_map")
    /\ calls' = [calls EXCEPT ![w] = @ \cup {"MapVolumeSdc"}]
    /\ LET id == loc[w].id
           sdcID == loc[w].sdcID
       IN  /\ lastCall' = [MapVolumeSdcParam(sdcID) EXCEPT
                              !.op = "MapVolumeSdc", !.vol = id,
                              !.before = bvol[id].mapped,
                              !.multi = bvol[id].multi]
           /\ \E up \in BOOLEAN :
                IF GatewayMaps(id, sdcID, up)
                THEN /\ bvol' = [bvol EXCEPT ![id].mapped = @ \cup {sdcID}]
                     /\ Return(w, Code("OK"))
                ELSE /\ Return(w, Code("Internal"))
                     /\ UNCHANGED bvol
    /\ UNCHANGED <<bvols, serviceVars, req, loc, probed, crashed>>

\* targetVolume.UnmapVolumeSdc, lines 371-385.
UnpublishUnmap(w) ==
    /\ At(w, "unpublish_unmap")
    /\ calls' = [calls EXCEPT ![w] = @ \cup {"UnmapVolumeSdc"}]
    /\ LET id == loc[w].id
           sdcID == loc[w].sdcID
       IN  /\ lastCall' = [NoCall EXCEPT
                              !.op = "UnmapVolumeSdc", !.vol = id, !.sdc = sdcID,
                              !.before = bvol[id].mapped,
                              !.multi = bvol[id].multi]
           /\ \E up \in BOOLEAN :
                IF GwOK(up) /\ bvol[id].state = "live" /\ sdcID \in bvol[id].mapped
                THEN /\ bvol' = [bvol EXCEPT ![id].mapped = @ \ {sdcID}]
                     /\ Return(w, Code("OK"))
                ELSE /\ Return(w, Code("Internal"))
                     /\ UNCHANGED bvol
    /\ UNCHANGED <<bvols, serviceVars, req, loc, probed, crashed>>

-----------------------------------------------------------------------------
(* ValidateVolumeCapabilities (controller.go 388-474).                     *)

\* A volume capability: its access mode ("NONE" when it has none) and
\* whether its access type is block rather than mount.
Cap(mode, block) == [mode |-> mode, block |-> block]

errNoMultiMap == "volume not enabled for mapping to multiple hosts"
errUnknownAccessMode == "access mode cannot be UNKNOWN"
errNoMultiNodeWriter ==
    "multi-node with writer(s) only supported for block access type"

\* Lines 422-429: some capability of the list is a block capability.
accTypeIsBlock(vcs) == \E i \in DOMAIN vcs : vcs[i].block

\* Mutant: a single-node capability sets the list supported again.
CapStep_mut(acc, vc, multi, isBlock) ==
    IF vc.mode = "NONE" THEN acc
    ELSE IF vc.mode = "UNKNOWN"
    THEN [supported |-> FALSE, reason |-> errUnknownAccessMode]
    ELSE IF vc.mode \in {"SINGLE_NODE_WRITER", "SINGLE_NODE_READER_ONLY"}
    THEN [supported |-> TRUE, reason |-> ""]
    ELSE IF vc.mode = "MULTI_NODE_READER_ONLY"
    THEN IF ~multi THEN [supported |-> FALSE, reason |-> errNoMultiMap] ELSE acc
    ELSE IF ~isBlock THEN [supported |-> FALSE, reason |-> errNoMultiNodeWriter]
    ELSE IF ~multi THEN [supported |-> FALSE, reason |-> errNoMultiMap]
    ELSE acc

\* Lines 441-471: one turn of the loop over the capabilities.
CapStep(acc, vc, multi, isBlock) ==
    IF vc.mode = "NONE" THEN acc
    ELSE IF vc.mode = "UNKNOWN"
    THEN [supported |-> FALSE, reason |-> errUnknownAccessMode]
    ELSE IF vc.mode \in {"SINGLE_NODE_WRITER", "SINGLE_NODE_READER_ONLY"}
    THEN acc
    ELSE IF vc.mode = "MULTI_NODE_READER_ONLY"
    THEN IF ~multi THEN [supported |-> FALSE, reason |-> errNoMultiMap] ELSE acc
    ELSE IF ~isBlock THEN [supported |-> FALSE, reason |-> errNoMultiNodeWriter]
    ELSE IF ~multi THEN [supported |-> FALSE, reason |-> errNoMultiMap]
    ELSE acc

RECURSIVE valVolumeCapsLoop(_, _, _, _, _)
valVolumeCapsLoop(vcs, i, acc, multi, isBlock) ==
    IF i > Len(vcs) THEN acc
    ELSE valVolumeCapsLoop(vcs, i + 1, CapStep(acc, vcs[i], multi, isBlock),
                           multi, isBlock)

\* Lines 431-474, for a volume whose MappingToAllSdcsEnabled is multi.
valVolumeCaps(vcs, multi) ==
    valVolumeCapsLoop(vcs, 1, [supported |-> TRUE, reason |-> ""], multi,
                      accTypeIsBlock(vcs))

\* Lines 388-420.
ValidateStart(w, r) ==
    /\ Begin(w, r)
    /\ r.op = "ValidateVolumeCapabilities"
    /\ IF NotProbed
       THEN /\ Return(w, Code("FailedPrecondition"))
            /\ loc' = [loc EXCEPT ![w] = FreshLoc]
            /\ calls' = [calls EXCEPT ![w] = {}]
       ELSE /\ calls' = [calls EXCEPT ![w] = {"GetVolume"}]
            /\ \E up \in BOOLEAN :
                 LET vol == getVolByID(r.vol, up)
                 IN  IF vol.err = "notfound"
                     THEN /\ Return(w, Code("NotFound"))
                          /\ loc' = [loc EXCEPT ![w] = [FreshLoc EXCEPT !.volErr = vol.err]]
                     ELSE IF vol.err # ""
                     THEN /\ Return(w, Code("Internal"))
                          /\ loc' = [loc EXCEPT ![w] = [FreshLoc EXCEPT !.volErr = vol.err]]
                     ELSE LET v == valVolumeCaps(r.caps, vol.multi)
                          IN  /\ loc' = [loc EXCEPT ![w] =
                                           [FreshLoc EXCEPT !.id = r.vol,
                                                            !.mapped = vol.mapped,
                                                            !.multi = vol.multi]]
                              /\ Return(w, [Code("OK") EXCEPT
                                              !.supported = v.supported,
                                              !.message = IF v.supported THEN ""
                                                          ELSE v.reason])
    /\ UNCHANGED <<backendVars, serviceVars, probed, lastCall, crashed>>

-----------------------------------------------------------------------------
(* ControllerProbe (controller.go 658-717).                                *)

\* Lines 705-716, entered with the token present.
ProbeSystemCheck(w) ==
    IF ~system THEN Goto(w, "probe_sys") /\ UNCHANGED <<res, probed>>
    ELSE Return(w, Code("OK")) /\ probed' = TRUE

\* Lines 663-692: the option checks and the reads of adminClient and token.
ProbeStart(w) ==
    /\ Begin(w, ProbeReq)
    /\ loc' = [loc EXCEPT ![w] = FreshLoc]
    /\ calls' = [calls EXCEPT ![w] = {}]
    /\ IF ~opts THEN Return(w, Code("FailedPrecondition")) /\ UNCHANGED probed
       ELSE IF ~adminClient THEN Goto(w, "probe_new") /\ UNCHANGED <<res, probed>>
       ELSE IF ~token THEN Goto(w, "probe_auth") /\ UNCHANGED <<res, probed>>
       ELSE ProbeSystemCheck(w)
    /\ UNCHANGED <<backendVars, serviceVars, lastCall, crashed>>

\* Lines 683-690: goscaleio.NewClientWithArgs; the new client has no token.
ProbeNew(w) ==
    /\ At(w, "probe_new")
    /\ \E ok \in BOOLEAN :
         IF ok
         THEN /\ adminClient' = TRUE
              /\ token' = FALSE
              /\ Goto(w, "probe_auth")
              /\ UNCHANGED res
         ELSE /\ Return(w, Code("FailedPrecondition"))
              /\ UNCHANGED <<adminClient, token>>
    /\ UNCHANGED <<backendVars, system, volCache, sdcMap, held, opts, req, loc,
                   calls, probed, lastCall, crashed>>

\* Lines 692-703: s.adminClient.Authenticate.
ProbeAuth(w) ==
    /\ At(w, "probe_auth")
    /\ calls' = [calls EXCEPT ![w] = @ \cup {"Authenticate"}]
    /\ \E up \in BOOLEAN :
         IF up
         THEN /\ token' = TRUE
              /\ ProbeSystemCheck(w)
         ELSE /\ Return(w, Code("FailedPrecondition"))
              /\ UNCHANGED <<token, probed>>
    /\ UNCHANGED <<backendVars, adminClient, system, volCache, sdcMap, held,
                   opts, req, loc, lastCall, crashed>>

\* Lines 705-716: s.adminClient.FindSystem.
ProbeSys(w) ==
    /\ At(w, "probe_sys")
    /\ calls' = [calls EXCEPT ![w] = @ \cup {"FindSystem"}]
    /\ \E up \in BOOLEAN :
         IF GwOK(up)
         THEN /\ system' = TRUE
              /\ Return(w, Code("OK"))
              /\ probed' = TRUE
         ELSE /\ Return(w, Code("FailedPrecondition"))
              /\ UNCHANGED <<system, probed>>
    /\ UNCHANGED <<backendVars, adminClient, token, volCache, sdcMap, held,
                   opts, req, loc, lastCall, crashed>>

-----------------------------------------------------------------------------
(* ListVolumes (controller.go 476-599).                                    *)

\* fmt.Sprintf("%d", n) for the offsets a listing can reach.
Digits == <<"0", "1", "2", "3", "4", "5", "6", "7", "8", "9">>
FormatUint(n) ==
    IF n < 10 THEN Digits[n + 1]
    ELSE Digits[(n \div 10) + 1] \o Digits[(n % 10) + 1]

\* strconv.ParseUint(v, 10, 32): the number a decimal string denotes, -1 for
\* a string that is no decimal number.
ParseUint(v) ==
    IF \E n \in 0..99 : FormatUint(n) = v
    THEN CHOOSE n \in 0..99 : FormatUint(n) = v
    ELSE -1

\* Lines 572-580: cacheVols[i] = s.volCache[i] for i < len(entries); j, which
\* starts at startToken, is advanced and never used.
CopyFromCache(cache, startToken, n) ==
    [i \in 1..n |-> cache[i]]

\* Mutant: the comparison with the length of the listing is <= instead of <.
NextToken_mut(startToken, lenSource, lvols) ==
    IF startToken + lenSource <= lvols THEN FormatUint(startToken + lenSource)
    ELSE ""

\* Lines 590-593.
NextToken(startToken, lenSource, lvols) ==
    IF startToken + lenSource < lvols THEN FormatUint(startToken + lenSource)
    ELSE ""

\* Lines 542-582 with lvols known: the token check, the page length and the
\* choice of the source.  Either the RPC returns (ret) or it goes on to copy
\* n entries from the snapshot.
ListPage(r, startToken, lvols, sioVols) ==
    IF startToken > lvols
    THEN [ret |-> TRUE, res |-> Code("Aborted"), n |-> 0]
    ELSE LET rem == lvols - startToken
             n == IF r.maxEntries = 0 \/ r.maxEntries > rem
                  THEN rem ELSE r.maxEntries
         IN  IF startToken = 0 /\ r.maxEntries = 0
             THEN [ret |-> TRUE,
                   res |-> [Code("OK") EXCEPT
                              !.entries = sioVols,
                              !.nextToken = NextToken(startToken, Len(sioVols), lvols)],
                   n |-> n]
             ELSE [ret |-> FALSE, res |-> NoRes, n |-> n]

\* Worker w, with locals l, goes on with the outcome p of ListPage.
ListGoOn(w, l, lvols, p) ==
    /\ loc' = [loc EXCEPT ![w] = [l EXCEPT !.lvols = lvols, !.n = p.n]]
    /\ IF p.ret THEN Return(w, p.res)
       ELSE Goto(w, "list_copy") /\ UNCHANGED res

\* Lines 481-500: the guard and the token parse.
ListStart(w, r) ==
    /\ Begin(w, r)
    /\ r.op = "ListVolumes"
    /\ calls' = [calls EXCEPT ![w] = {}]
    /\ LET startToken == IF r.startToken = "" THEN 0 ELSE ParseUint(r.startToken)
           l == [FreshLoc EXCEPT !.startToken = startToken]
       IN  IF NotProbed
           THEN Return(w, Code("FailedPrecondition")) /\ loc' = [loc EXCEPT ![w] = FreshLoc]
           ELSE IF startToken < 0
           THEN Return(w, Code("Aborted")) /\ loc' = [loc EXCEPT ![w] = FreshLoc]
           ELSE /\ Goto(w, "list_len")
                /\ loc' = [loc EXCEPT ![w] = l]
                /\ UNCHANGED res
    /\ UNCHANGED <<backendVars, serviceVars, probed, lastCall, crashed>>

\* Lines 502-517 and, when no fetch is needed, 538-568: the read-locked
\* len(s.volCache) and the choice between a fetch and the snapshot.
ListLen(w) ==
    /\ At(w, "list_len")
    /\ Holds(w)
    /\ Release(w)
    /\ LET startToken == loc[w].startToken
           cacheLen == Len(volCache)
       IN  IF startToken = 0 \/ cacheLen = 0
           THEN Goto(w, "list_fetch") /\ UNCHANGED <<loc, res>>
           ELSE ListGoOn(w, loc[w], cacheLen,
                         ListPage(req[w], startToken, cacheLen, <<>>))
    /\ UNCHANGED <<backendVars, adminClient, token, system, volCache, sdcMap,
                   opts, req, calls, probed, lastCall, crashed>>

\* Lines 519-527: s.adminClient.GetVolume for all volumes; without a store,
\* on to the page.
ListFetch(w) ==
    /\ At(w, "list_fetch")
    /\ calls' = [calls EXCEPT ![w] = @ \cup {"GetVolume"}]
    /\ \E up \in BOOLEAN :
         IF ~GwOK(up)
         THEN Return(w, Code("Internal")) /\ UNCHANGED loc
         ELSE LET sioVols == bvols
                  lvols == Len(sioVols)
              IN  IF req[w].maxEntries > 0 /\ req[w].maxEntries < lvols
                  THEN /\ Goto(w, "list_store")
                       /\ loc' = [loc EXCEPT ![w].sioVols = sioVols,
                                             ![w].lvols = lvols]
                       /\ UNCHANGED res
                  ELSE ListGoOn(w, loc[w], lvols,
                                ListPage(req[w], loc[w].startToken, lvols, sioVols))
    /\ UNCHANGED <<backendVars, serviceVars, req, probed, lastCall, crashed>>

\* A variant whose copy stops one volume short of the fetched list.
CopyToCache_mut(sioVols, lvols) ==
    [i \in 1..(lvols - 1) |-> sioVols[i]]

\* Lines 533-534: make([]*siotypes.Volume, lvols) and copy(s.volCache,
\* sioVols): a new slice holding the lvols fetched volumes.
CopyToCache(sioVols, lvols) ==
    [i \in 1..lvols |-> sioVols[i]]

\* Lines 530-536: the write-locked store of the fetched list, then on to the
\* page.
ListStore(w) ==
    /\ At(w, "list_store")
    /\ Holds(w)
    /\ volCache' = CopyToCache(loc[w].sioVols, loc[w].lvols)
    /\ Release(w)
    /\ ListGoOn(w, [loc[w] EXCEPT !.sioVols = <<>>], loc[w].lvols,
                ListPage(req[w], loc[w].startToken, loc[w].lvols, loc[w].sioVols))
    /\ UNCHANGED <<backendVars, adminClient, token, system, sdcMap, opts,
                   req, calls, probed, lastCall, crashed>>

\* Lines 569-598: the read-locked copy from the snapshot and the response.
\* Reading s.volCache[i] at or past its length is a runtime panic.
ListCopy(w) ==
    /\ At(w, "list_copy")
    /\ Holds(w)
    /\ Release(w)
    /\ IF loc[w].n > Len(volCache)
       THEN /\ crashed' = TRUE
            /\ UNCHANGED <<pc, res>>
       ELSE /\ LET source == CopyFromCache(volCache, loc[w].startToken, loc[w].n)
               IN  Return(w, [Code("OK") EXCEPT
                                !.entries = source,
                                !.nextToken = NextToken(loc[w].startToken, Len(source),
                                                        loc[w].lvols)])
            /\ UNCHANGED crashed
    /\ UNCHANGED <<backendVars, adminClient, token, system, volCache, sdcMap,
                   opts, req, loc, calls, probed, lastCall>>

-----------------------------------------------------------------------------
(* GetCapacity and ControllerGetCapabilities (controller.go 601-656).      *)

\* Mutant: the response that is commented out at lines 610-614 is returned.
GetCapacityCode_mut == IF NotProbed THEN "FailedPrecondition" ELSE "OK"

\* Lines 606-615: the status GetCapacity returns.
GetCapacityCode == IF NotProbed THEN "FailedPrecondition" ELSE "Unimplemented"

\* Lines 601-616.  The status of line 615 is built with the empty text:
\* status.Error(codes.Unimplemented, "").
GetCapacity(w, r) ==
    /\ Begin(w, r)
    /\ r.op = "GetCapacity"
    /\ Return(w, IF NotProbed THEN Code(GetCapacityCode)
                 ELSE [Code(GetCapacityCode) EXCEPT !.msg = ""])
    /\ loc' = [loc EXCEPT ![w] = FreshLoc]
    /\ calls' = [calls EXCEPT ![w] = {}]
    /\ UNCHANGED <<backendVars, serviceVars, probed, lastCall, crashed>>

\* Lines 624-654: the capabilities of the response, in order.
ControllerCapabilities ==
    <<"CREATE_DELETE_VOLUME", "PUBLISH_UNPUBLISH_VOLUME", "LIST_VOLUMES">>

\* Lines 618-656.
ControllerGetCapabilities(w, r) ==
    /\ Begin(w, r)
    /\ r.op = "ControllerGetCapabilities"
    /\ Return(w, [Code("OK") EXCEPT !.rpcs = ControllerCapabilities])
    /\ loc' = [loc EXCEPT ![w] = FreshLoc]
    /\ calls' = [calls EXCEPT ![w] = {}]
    /\ UNCHANGED <<backendVars, serviceVars, probed, lastCall, crashed>>

-----------------------------------------------------------------------------
(* newGrpcInterceptors (provider.go 294-370).                              *)

ReqLoggingEnabled == "X_CSI_SCALEIO_REQ_LOGGING_ENABLED"
RepLoggingEnabled == "X_CSI_SCALEIO_REP_LOGGING_ENABLED"
ReqIDInjectionEnabled == "X_CSI_SCALEIO_REQ_ID_INJECTION_ENABLED"
SpecValidationEnabled == "X_CSI_SCALEIO_SPEC_VALIDATION_ENABLED"
IdempEnabled == "X_CSI_SCALEIO_IDEMPOTENCY_ENABLED"
IdempRequireVolume == "X_CSI_SCALEIO_IDEMPOTENCY_REQUIRE_VOLUME"
ToggleNames == {ReqLoggingEnabled, RepLoggingEnabled, ReqIDInjectionEnabled,
                SpecValidationEnabled, IdempEnabled, IdempRequireVolume}

\* Lines 300-306: a variable that does not parse counts as true.
pb(env, n) ==
    LET p == ParseBool(env[n])
    IN  IF p.err THEN TRUE ELSE p.b

\* An interceptor: its kind and the options it was built with.
Interceptor(kind, o) == [kind |-> kind, opts |-> o]

\* Mutant: the spec validator is appended before the logger.
newGrpcInterceptors_mut(env) ==
    LET reqLogEnabled == pb(env, ReqLoggingEnabled)
        repLogEnabled == pb(env, RepLoggingEnabled)
        u1 == IF pb(env, ReqIDInjectionEnabled)
              THEN <<Interceptor("RequestIDInjector", {})>> ELSE <<>>
        u2 == IF pb(env, SpecValidationEnabled)
              THEN Append(u1, Interceptor("SpecValidator", {}))
              ELSE u1
        u3 == IF reqLogEnabled \/ repLogEnabled
              THEN Append(u2, Interceptor("Logger",
                     (IF reqLogEnabled THEN {"WithRequestLogging"} ELSE {}) \cup
                     (IF repLogEnabled THEN {"WithResponseLogging"} ELSE {})))
              ELSE u2
    IN  IF pb(env, IdempEnabled)
        THEN Append(u3, Interceptor("Idempotent", {"WithIdempTimeout"}))
        ELSE u3

\* Lines 308-369: usi after each of the four appends.
newGrpcInterceptors(env) ==
    LET reqLogEnabled == pb(env, ReqLoggingEnabled)
        repLogEnabled == pb(env, RepLoggingEnabled)
        u1 == IF pb(env, ReqIDInjectionEnabled)
              THEN <<Interceptor("RequestIDInjector", {})>> ELSE <<>>
        u2 == IF reqLogEnabled \/ repLogEnabled
              THEN Append(u1, Interceptor("Logger",
                     (IF reqLogEnabled THEN {"WithRequestLogging"} ELSE {}) \cup
                     (IF repLogEnabled THEN {"WithResponseLogging"} ELSE {})))
              ELSE u1
        u3 == IF pb(env, SpecValidationEnabled)
              THEN Append(u2, Interceptor("SpecValidator",
                     {"WithSupportedVersions", "WithSuccessDeleteVolumeNotFound",
                      "WithSuccessCreateVolumeAlreadyExists", "WithRequiresNodeID"}))
              ELSE u2
    IN  IF pb(env, IdempEnabled)
        THEN Append(u3, Interceptor("Idempotent",
               {"WithIdempTimeout"} \cup
               (IF pb(env, IdempRequireVolume)
                THEN {"WithIdempRequireVolumeExists"} ELSE {})))
        ELSE u3

-----------------------------------------------------------------------------
(* Serve, Stop and GracefulStop (provider.go 145-266).                     *)

NodeServiceOnly == "X_CSI_SCALEIO_NODEONLY"
ControllerServiceOnly == "X_CSI_SCALEIO_CONTROLLERONLY"
ServiceFlags == {NodeServiceOnly, ControllerServiceOnly}

\* Lines 151-163: a variable that does not parse counts as false.
peb(env, e) ==
    LET p == ParseBool(env[e])
    IN  IF p.err THEN FALSE ELSE p.b

\* Lines 209-228: the services registered beside the identity service.
\* A variant without the check that both flags are set.
RegisterServices_mut(nodeSvc, ctrlSvc) ==
    IF nodeSvc THEN [err |-> "", services |-> {"node"}]
    ELSE IF ctrlSvc THEN [err |-> "", services |-> {"controller"}]
    ELSE [err |-> "", services |-> {"controller", "node"}]

RegisterServices(nodeSvc, ctrlSvc) ==
    IF nodeSvc /\ ctrlSvc THEN [err |-> "both", services |-> {}]
    ELSE IF nodeSvc THEN [err |-> "", services |-> {"node"}]
    ELSE IF ctrlSvc THEN [err |-> "", services |-> {"controller"}]
    ELSE [err |-> "", services |-> {"controller", "node"}]

\* Serve up to the point where p.server.Serve(li) takes over: the provider
\* as the call leaves it.  A closed provider and one that has a server
\* both return errServerStarted (lines 187-200).
Serve(env, p) ==
    IF p.closed \/ p.server
    THEN [p EXCEPT !.err = "errServerStarted"]
    ELSE LET reg == RegisterServices(peb(env, NodeServiceOnly),
                                     peb(env, ControllerServiceOnly))
             q == [p EXCEPT !.server = TRUE, !.registered = {"identity"}]
         IN  IF reg.err # ""
             THEN [q EXCEPT !.err = reg.err]
             ELSE [q EXCEPT !.registered = @ \cup reg.services,
                            !.serving = TRUE, !.err = ""]

\* Stop and GracefulStop, lines 242-266: nothing without a server; else the
\* server stops and the provider is closed.
Stop(p) ==
    IF ~p.server THEN p
    ELSE [p EXCEPT !.serving = FALSE, !.closed = TRUE]

-----------------------------------------------------------------------------
(* Specifications.  Each one is the service in front of a client           *)
(* population that issues a given family of RPCs; the handlers are the     *)
(* same actions throughout.                                                *)

NoHarness == vs = NoVs /\ pg = NoPg

\* A volume as a backend may hold it: a volume not enabled for multiple
\* mappings is mapped to at most one SDC.
VolumeShapes ==
    { LiveVol(m, mu, DefaultVolumeSizeKiB) :
        m \in SUBSET SdcIds, mu \in BOOLEAN } \
    { LiveVol(SdcIds, FALSE, DefaultVolumeSizeKiB) }

\* Backends holding volume 1 in any shape and the volumes after it
\* unmapped, with one or two volume ids still free.
InitBackend ==
    /\ \E n \in (MaxVols - 2)..(MaxVols - 1) : bvols = [i \in 1..n |-> i]
    /\ \E first \in VolumeShapes :
         bvol = [v \in VolIds |->
                   IF v = 1 THEN first
                   ELSE IF v <= Len(bvols)
                        THEN LiveVol({}, FALSE, DefaultVolumeSizeKiB)
                        ELSE FreeVol]

(* Volume lifecycle: one worker serves CreateVolume, DeleteVolume and      *)
(* ListVolumes one after the other on a probed service.                    *)

\* Capacity ranges around the rounding unit and the default size.
SeqRequired == {ZeroBytes, Bytes(0, 0, 1), Bytes(VolSizeMultipleGiB, 0, 0),
                Bytes(VolSizeMultipleGiB, 0, 1)}
SeqLimits == {ZeroBytes, Bytes(VolSizeMultipleGiB, 0, 0),
              Bytes(2 * VolSizeMultipleGiB, 0, 0)}

CreateReqs ==
    { CreateReq([required |-> a, limit |-> b], hp, hn) :
        a \in SeqRequired, b \in SeqLimits, hp \in BOOLEAN, hn \in BOOLEAN }
DeleteReqs == { DeleteReq(v) : v \in VolIds }
ListReqs == { ListReq(t, k) : t \in {"", "1", "3", "x"}, k \in 0..2 }

Init ==
    /\ InitBackend
    /\ InitProbedService
    /\ opts = TRUE
    /\ InitWorkers
    /\ NoHarness

Next ==
    \/ Acquire(W1) /\ UNCHANGED <<vs, pg>>
    \/ /\ pc[W1] = "idle"
       /\ \E r \in CreateReqs : CreateStart(W1, r)
       /\ UNCHANGED <<vs, pg>>
    \/ CreateGet(W1) /\ UNCHANGED <<vs, pg>>
    \/ CreateClear(W1) /\ UNCHANGED <<vs, pg>>
    \/ /\ pc[W1] = "idle"
       /\ \E r \in DeleteReqs : DeleteStart(W1, r)
       /\ UNCHANGED <<vs, pg>>
    \/ DeleteRemove(W1) /\ UNCHANGED <<vs, pg>>
    \/ DeleteClear(W1) /\ UNCHANGED <<vs, pg>>
    \/ /\ pc[W1] = "idle"
       /\ \E r \in ListReqs : ListStart(W1, r)
       /\ UNCHANGED <<vs, pg>>
    \/ ListLen(W1) /\ UNCHANGED <<vs, pg>>
    \/ ListFetch(W1) /\ UNCHANGED <<vs, pg>>
    \/ ListStore(W1) /\ UNCHANGED <<vs, pg>>
    \/ ListCopy(W1) /\ UNCHANGED <<vs, pg>>
    \/ Finish(W1) /\ UNCHANGED <<vs, pg>>

Spec == Init /\ [][Next]_vars

(* Publishing: one worker serves ControllerPublishVolume and               *)
(* ControllerUnpublishVolume one after the other on a probed service.      *)

PublishReqs ==
    { PublishReq(v, n, m, b) : v \in VolIds, n \in NodeIds, m \in Modes,
                               b \in BOOLEAN }
UnpublishReqs == { UnpublishReq(v, n) : v \in VolIds, n \in NodeIds }

NextPub ==
    \/ Acquire(W1) /\ UNCHANGED <<vs, pg>>
    \/ /\ pc[W1] = "idle"
       /\ \E r \in PublishReqs \cup UnpublishReqs : PubUnpubStart(W1, r)
       /\ UNCHANGED <<vs, pg>>
    \/ SdcLookup(W1) /\ UNCHANGED <<vs, pg>>
    \/ SdcFind(W1) /\ UNCHANGED <<vs, pg>>
    \/ SdcStore(W1) /\ UNCHANGED <<vs, pg>>
    \/ PublishMap(W1) /\ UNCHANGED <<vs, pg>>
    \/ UnpublishUnmap(W1) /\ UNCHANGED <<vs, pg>>
    \/ Finish(W1) /\ UNCHANGED <<vs, pg>>

SpecPub == Init /\ [][NextPub]_vars

(* Probing: one worker serves ControllerProbe, the four mutating RPCs,     *)
(* GetCapacity and ControllerGetCapabilities one after the other, starting *)
(* from a freshly constructed service.                                     *)

ProbeSpecReqs ==
    { CreateReq(NoCr, TRUE, TRUE), DeleteReq(1), DeleteReq(2),
      PublishReq(1, "A", "SINGLE_NODE_WRITER", FALSE), UnpublishReq(1, "A") }

InitProbe ==
    /\ InitBackend
    /\ InitService
    /\ opts \in BOOLEAN
    /\ InitWorkers
    /\ NoHarness

NextProbe ==
    \/ Acquire(W1) /\ UNCHANGED <<vs, pg>>
    \/ ProbeStart(W1) /\ UNCHANGED <<vs, pg>>
    \/ ProbeNew(W1) /\ UNCHANGED <<vs, pg>>
    \/ ProbeAuth(W1) /\ UNCHANGED <<vs, pg>>
    \/ ProbeSys(W1) /\ UNCHANGED <<vs, pg>>
    \/ (\E r \in ProbeSpecReqs : CreateStart(W1, r)) /\ UNCHANGED <<vs, pg>>
    \/ CreateGet(W1) /\ UNCHANGED <<vs, pg>>
    \/ CreateClear(W1) /\ UNCHANGED <<vs, pg>>
    \/ (\E r \in ProbeSpecReqs : DeleteStart(W1, r)) /\ UNCHANGED <<vs, pg>>
    \/ DeleteRemove(W1) /\ UNCHANGED <<vs, pg>>
    \/ DeleteClear(W1) /\ UNCHANGED <<vs, pg>>
    \/ (\E r \in ProbeSpecReqs : PubUnpubStart(W1, r)) /\ UNCHANGED <<vs, pg>>
    \/ SdcLookup(W1) /\ UNCHANGED <<vs, pg>>
    \/ SdcFind(W1) /\ UNCHANGED <<vs, pg>>
    \/ SdcStore(W1) /\ UNCHANGED <<vs, pg>>
    \/ PublishMap(W1) /\ UNCHANGED <<vs, pg>>
    \/ UnpublishUnmap(W1) /\ UNCHANGED <<vs, pg>>
    \/ GetCapacity(W1, GetCapacityReq) /\ UNCHANGED <<vs, pg>>
    \/ ControllerGetCapabilities(W1, GetCapabilitiesReq) /\ UNCHANGED <<vs, pg>>
    \/ Finish(W1) /\ UNCHANGED <<vs, pg>>

SpecProbe == InitProbe /\ [][NextProbe]_vars

(* validateVolSize on its own: every capacity range of ByteInputs.         *)

InitSize ==
    /\ BackendWith(0, {})
    /\ InitService
    /\ opts = TRUE
    /\ InitWorkers
    /\ pg = NoPg
    /\ \E a \in ByteInputs, b \in ByteInputs :
         vs = [NoVs EXCEPT !.phase = "in", !.cr = [required |-> a, limit |-> b]]

ValidateStep ==
    /\ vs.phase = "in"
    /\ LET v == validateVolSize(vs.cr)
       IN  vs' = [vs EXCEPT !.phase = "out", !.err = v.err,
                            !.sizeKiB = v.sizeKiB, !.sizeGiB = v.sizeGiB]
    /\ UNCHANGED <<backendVars, serviceVars, workerVars, probed, lastCall,
                   crashed, pg>>

NextSize == ValidateStep

SpecSize == InitSize /\ [][NextSize]_vars

(* Paging: a client lists a backend of N volumes that nothing else         *)
(* touches, k entries a page, passing each nextToken as the next call's    *)
(* starting token until the token comes back empty.                        *)

InitList ==
    /\ \E n \in 2..MaxVols : \E multis \in SUBSET (1..n) : BackendWith(n, multis)
    /\ InitProbedService
    /\ opts = TRUE
    /\ InitWorkers
    /\ vs = NoVs
    /\ \E k \in 1..(Len(bvols) - 1) :
         pg = [NoPg EXCEPT !.script = "page", !.phase = "call", !.k = k]

PagerCall ==
    /\ pg.script = "page" /\ pg.phase = "call"
    /\ ListStart(W1, ListReq(pg.token, pg.k))
    /\ pg' = [pg EXCEPT !.phase = "wait"]
    /\ UNCHANGED vs

PagerCollect ==
    /\ pg.script = "page" /\ pg.phase = "wait"
    /\ Finish(W1)
    /\ pg' = IF res[W1].code = "OK"
             THEN [pg EXCEPT !.got = @ \o res[W1].entries,
                             !.token = res[W1].nextToken,
                             !.phase = IF res[W1].nextToken = "" THEN "end"
                                       ELSE "call"]
             ELSE [pg EXCEPT !.phase = "failed"]
    /\ UNCHANGED vs

NextList ==
    \/ Acquire(W1) /\ UNCHANGED <<vs, pg>>
    \/ PagerCall
    \/ ListLen(W1) /\ UNCHANGED <<vs, pg>>
    \/ ListFetch(W1) /\ UNCHANGED <<vs, pg>>
    \/ ListStore(W1) /\ UNCHANGED <<vs, pg>>
    \/ ListCopy(W1) /\ UNCHANGED <<vs, pg>>
    \/ PagerCollect

SpecList == InitList /\ [][NextList]_vars

(* Publishing twice: a client publishes a volume to a node and, when that  *)
(* succeeded, sends the same request again; nothing else touches the       *)
(* backend.                                                                *)

InitTwice ==
    /\ InitBackend
    /\ InitProbedService
    /\ opts = TRUE
    /\ InitWorkers
    /\ vs = NoVs
    /\ \E r \in PublishReqs :
         pg = [NoPg EXCEPT !.script = "twice", !.phase = "call1", !.r = r]

TwiceCall ==
    /\ pg.script = "twice" /\ pg.phase \in {"call1", "call2"}
    /\ PubUnpubStart(W1, pg.r)
    /\ pg' = [pg EXCEPT !.phase = IF pg.phase = "call1" THEN "wait1" ELSE "wait2"]
    /\ UNCHANGED vs

TwiceCollectFirst ==
    /\ pg.script = "twice" /\ pg.phase = "wait1"
    /\ Finish(W1)
    /\ pg' = [pg EXCEPT !.phase = IF res[W1].code = "OK" THEN "call2" ELSE "failed",
                        !.mappedAfterFirst = bvol[pg.r.vol].mapped]
    /\ UNCHANGED vs

TwiceCollectSecond ==
    /\ pg.script = "twice" /\ pg.phase = "wait2"
    /\ ~crashed /\ pc[W1] = "done"
    /\ pg' = [pg EXCEPT !.phase = "end"]
    /\ UNCHANGED <<backendVars, serviceVars, workerVars, probed, lastCall,
                   crashed, vs>>

NextTwice ==
    \/ Acquire(W1) /\ UNCHANGED <<vs, pg>>
    \/ TwiceCall
    \/ SdcLookup(W1) /\ UNCHANGED <<vs, pg>>
    \/ SdcFind(W1) /\ UNCHANGED <<vs, pg>>
    \/ SdcStore(W1) /\ UNCHANGED <<vs, pg>>
    \/ PublishMap(W1) /\ UNCHANGED <<vs, pg>>
    \/ TwiceCollectFirst
    \/ TwiceCollectSecond

SpecTwice == InitTwice /\ [][NextTwice]_vars

(* Concurrency: two workers serve ControllerPublishVolume and              *)
(* ControllerUnpublishVolume for volume 1, which is not enabled for        *)
(* multiple mappings, each worker for a node of its own.                   *)

ConcReqs(w) ==
    LET n == IF w = W1 THEN "A" ELSE "B"
    IN  { PublishReq(1, n, "SINGLE_NODE_WRITER", FALSE), UnpublishReq(1, n) }

InitConc ==
    /\ BackendWith(1, {})
    /\ InitProbedService
    /\ opts = TRUE
    /\ InitWorkers
    /\ NoHarness

NextConc ==
    \/ (\E w \in Workers : Acquire(w)) /\ UNCHANGED <<vs, pg>>
    \/ (\E w \in Workers : \E r \in ConcReqs(w) : PubUnpubStart(w, r))
         /\ UNCHANGED <<vs, pg>>
    \/ (\E w \in Workers : SdcLookup(w)) /\ UNCHANGED <<vs, pg>>
    \/ (\E w \in Workers : SdcFind(w)) /\ UNCHANGED <<vs, pg>>
    \/ (\E w \in Workers : SdcStore(w)) /\ UNCHANGED <<vs, pg>>
    \/ (\E w \in Workers : PublishMap(w)) /\ UNCHANGED <<vs, pg>>
    \/ (\E w \in Workers : UnpublishUnmap(w)) /\ UNCHANGED <<vs, pg>>
    \/ (\E w \in Workers : Finish(w)) /\ UNCHANGED <<vs, pg>>

SpecConc == InitConc /\ [][NextConc]_vars

(* Concurrency: one worker serves DeleteVolume while the other serves      *)
(* ControllerPublishVolume and ControllerUnpublishVolume for node "A", on  *)
(* the same two volumes.                                                   *)

DelPubReqs(w) ==
    IF w = W1
    THEN { DeleteReq(v) : v \in 1..2 }
    ELSE { PublishReq(v, "A", "SINGLE_NODE_WRITER", FALSE) : v \in 1..2 }
           \cup { UnpublishReq(v, "A") : v \in 1..2 }

InitDelPub ==
    /\ BackendWith(2, {})
    /\ InitProbedService
    /\ opts = TRUE
    /\ InitWorkers
    /\ NoHarness

NextDelPub ==
    \/ (\E w \in Workers : Acquire(w)) /\ UNCHANGED <<vs, pg>>
    \/ (\E r \in DelPubReqs(W1) : DeleteStart(W1, r)) /\ UNCHANGED <<vs, pg>>
    \/ DeleteRemove(W1) /\ UNCHANGED <<vs, pg>>
    \/ DeleteClear(W1) /\ UNCHANGED <<vs, pg>>
    \/ (\E r \in DelPubReqs(W2) : PubUnpubStart(W2, r)) /\ UNCHANGED <<vs, pg>>
    \/ SdcLookup(W2) /\ UNCHANGED <<vs, pg>>
    \/ SdcFind(W2) /\ UNCHANGED <<vs, pg>>
    \/ SdcStore(W2) /\ UNCHANGED <<vs, pg>>
    \/ PublishMap(W2) /\ UNCHANGED <<vs, pg>>
    \/ UnpublishUnmap(W2) /\ UNCHANGED <<vs, pg>>
    \/ (\E w \in Workers : Finish(w)) /\ UNCHANGED <<vs, pg>>

SpecDelPub == InitDelPub /\ [][NextDelPub]_vars

(* Concurrency: two workers serve ListVolumes, CreateVolume, DeleteVolume, *)
(* ControllerPublishVolume and ControllerUnpublishVolume in any            *)
(* interleaving, so that every locked section of the service is entered    *)
(* while the other worker is at any step of its own RPC.                   *)

LockReqs ==
    { ListReq("", 1), ListReq("1", 1), DeleteReq(1),
      CreateReq([required |-> ZeroBytes, limit |-> ZeroBytes], TRUE, TRUE),
      PublishReq(1, "A", "SINGLE_NODE_WRITER", FALSE), UnpublishReq(1, "A") }

InitLocks ==
    /\ BackendWith(2, {})
    /\ InitProbedService
    /\ opts = TRUE
    /\ InitWorkers
    /\ NoHarness

NextLocks ==
    \/ (\E w \in Workers : Acquire(w)) /\ UNCHANGED <<vs, pg>>
    \/ (\E w \in Workers : \E r \in LockReqs : ListStart(w, r))
         /\ UNCHANGED <<vs, pg>>
    \/ (\E w \in Workers : ListLen(w)) /\ UNCHANGED <<vs, pg>>
    \/ (\E w \in Workers : ListFetch(w)) /\ UNCHANGED <<vs, pg>>
    \/ (\E w \in Workers : ListStore(w)) /\ UNCHANGED <<vs, pg>>
    \/ (\E w \in Workers : ListCopy(w)) /\ UNCHANGED <<vs, pg>>
    \/ (\E w \in Workers : \E r \in LockReqs : CreateStart(w, r))
         /\ UNCHANGED <<vs, pg>>
    \/ (\E w \in Workers : CreateGet(w)) /\ UNCHANGED <<vs, pg>>
    \/ (\E w \in Workers : CreateClear(w)) /\ UNCHANGED <<vs, pg>>
    \/ (\E w \in Workers : \E r \in LockReqs : DeleteStart(w, r))
         /\ UNCHANGED <<vs, pg>>
    \/ (\E w \in Workers : DeleteRemove(w)) /\ UNCHANGED <<vs, pg>>
    \/ (\E w \in Workers : DeleteClear(w)) /\ UNCHANGED <<vs, pg>>
    \/ (\E w \in Workers : \E r \in LockReqs : PubUnpubStart(w, r))
         /\ UNCHANGED <<vs, pg>>
    \/ (\E w \in Workers : SdcLookup(w)) /\ UNCHANGED <<vs, pg>>
    \/ (\E w \in Workers : SdcFind(w)) /\ UNCHANGED <<vs, pg>>
    \/ (\E w \in Workers : SdcStore(w)) /\ UNCHANGED <<vs, pg>>
    \/ (\E w \in Workers : PublishMap(w)) /\ UNCHANGED <<vs, pg>>
    \/ (\E w \in Workers : UnpublishUnmap(w)) /\ UNCHANGED <<vs, pg>>
    \/ (\E w \in Workers : Finish(w)) /\ UNCHANGED <<vs, pg>>

SpecLocks == InitLocks /\ [][NextLocks]_vars

(* Concurrency: two workers serve ControllerProbe on a service that has    *)
(* its options but no client yet, against a healthy backend: no step of a  *)
(* probe fails.  The harness counts the Authenticate and FindSystem calls. *)

InitProbes ==
    /\ InitBackend
    /\ InitService
    /\ opts = TRUE
    /\ InitWorkers
    /\ vs = NoVs
    /\ pg = [NoPg EXCEPT !.script = "probes"]

\* The step of worker w does not end its probe with an error.
Healthy(w) == pc'[w] = "done" => res'[w].code = "OK"

NextProbes ==
    \/ (\E w \in Workers : ProbeStart(w)) /\ UNCHANGED <<vs, pg>>
    \/ (\E w \in Workers : ProbeNew(w) /\ Healthy(w)) /\ UNCHANGED <<vs, pg>>
    \/ (\E w \in Workers : ProbeAuth(w) /\ Healthy(w))
         /\ pg' = [pg EXCEPT !.auths = @ + 1]
         /\ UNCHANGED vs
    \/ (\E w \in Workers : ProbeSys(w) /\ Healthy(w))
         /\ pg' = [pg EXCEPT !.finds = @ + 1]
         /\ UNCHANGED vs
    \/ (\E w \in Workers : Finish(w)) /\ UNCHANGED <<vs, pg>>

SpecProbes == InitProbes /\ [][NextProbes]_vars

(* Concurrency: one worker pages through the volumes from the second       *)
(* entry on while the other serves CreateVolume and DeleteVolume; an       *)
(* earlier paged listing has left its snapshot behind.                     *)

ListRaceReqs(w) ==
    IF w = W1
    THEN { ListReq("1", 1) }
    ELSE { DeleteReq(1),
           CreateReq([required |-> ZeroBytes, limit |-> ZeroBytes], TRUE, TRUE) }

InitListRace ==
    /\ BackendWith(2, {})
    /\ adminClient = TRUE /\ token = TRUE /\ system = TRUE
    /\ volCache = bvols
    /\ sdcMap = [g \in {ToUpper(n) : n \in NodeIds} |-> ""]
    /\ probed = TRUE
    /\ opts = TRUE
    /\ InitWorkers
    /\ NoHarness

NextListRace ==
    \/ (\E w \in Workers : Acquire(w)) /\ UNCHANGED <<vs, pg>>
    \/ (\E r \in ListRaceReqs(W1) : ListStart(W1, r)) /\ UNCHANGED <<vs, pg>>
    \/ ListLen(W1) /\ UNCHANGED <<vs, pg>>
    \/ ListFetch(W1) /\ UNCHANGED <<vs, pg>>
    \/ ListStore(W1) /\ UNCHANGED <<vs, pg>>
    \/ ListCopy(W1) /\ UNCHANGED <<vs, pg>>
    \/ (\E r \in ListRaceReqs(W2) : CreateStart(W2, r)) /\ UNCHANGED <<vs, pg>>
    \/ CreateGet(W2) /\ UNCHANGED <<vs, pg>>
    \/ CreateClear(W2) /\ UNCHANGED <<vs, pg>>
    \/ (\E r \in ListRaceReqs(W2) : DeleteStart(W2, r)) /\ UNCHANGED <<vs, pg>>
    \/ DeleteRemove(W2) /\ UNCHANGED <<vs, pg>>
    \/ DeleteClear(W2) /\ UNCHANGED <<vs, pg>>
    \/ (\E w \in Workers : Finish(w)) /\ UNCHANGED <<vs, pg>>

SpecListRace == InitListRace /\ [][NextListRace]_vars

(* Capabilities: one worker serves ValidateVolumeCapabilities for lists   *)
(* of up to MaxCaps capabilities, and ControllerPublishVolume with a       *)
(* read-only block capability, for volume 1 in any shape; volume 2 does    *)
(* not exist.                                                              *)

\* Longest capability list of a request.
MaxCaps == 2

AllCaps == { Cap(m, b) : m \in Modes \cup {"NONE"}, b \in BOOLEAN }
CapLists == UNION { [1..n -> AllCaps] : n \in 0..MaxCaps }

ValidateReqs ==
    { ValidateReq(1, vcs) : vcs \in CapLists } \cup { ValidateReq(2, <<>>) }
ReadOnlyModes == {"SINGLE_NODE_READER_ONLY", "MULTI_NODE_READER_ONLY"}
BlockPublishReqs == { PublishReq(1, "A", m, TRUE) : m \in ReadOnlyModes }

InitCaps ==
    /\ bvols = <<1>>
    /\ \E first \in VolumeShapes :
         bvol = [v \in VolIds |-> IF v = 1 THEN first ELSE FreeVol]
    /\ InitProbedService
    /\ opts = TRUE
    /\ InitWorkers
    /\ NoHarness

NextCaps ==
    \/ Acquire(W1) /\ UNCHANGED <<vs, pg>>
    \/ /\ pc[W1] = "idle"
       /\ \E r \in ValidateReqs : ValidateStart(W1, r)
       /\ UNCHANGED <<vs, pg>>
    \/ (\E r \in BlockPublishReqs : PubUnpubStart(W1, r)) /\ UNCHANGED <<vs, pg>>
    \/ SdcLookup(W1) /\ UNCHANGED <<vs, pg>>
    \/ SdcFind(W1) /\ UNCHANGED <<vs, pg>>
    \/ SdcStore(W1) /\ UNCHANGED <<vs, pg>>
    \/ PublishMap(W1) /\ UNCHANGED <<vs, pg>>
    \/ Finish(W1) /\ UNCHANGED <<vs, pg>>

SpecCaps == InitCaps /\ [][NextCaps]_vars

(* The interceptor chain: newGrpcInterceptors for every setting of the    *)
(* six variables it reads.                                                 *)

\* What a variable may hold: unset, spellings ParseBool accepts, and one it
\* does not.
EnvValues == {"", "true", "false", "0", "yes"}

InitChain ==
    /\ BackendWith(0, {})
    /\ InitService
    /\ opts = TRUE
    /\ InitWorkers
    /\ pg = NoPg
    /\ \E env \in [ToggleNames -> EnvValues] :
         vs = [NoVs EXCEPT !.phase = "env", !.env = env]

BuildChain ==
    /\ vs.phase = "env"
    /\ vs' = [vs EXCEPT !.phase = "chain", !.usi = newGrpcInterceptors(vs.env)]
    /\ UNCHANGED <<backendVars, serviceVars, workerVars, probed, lastCall,
                   crashed, pg>>

NextChain == BuildChain

SpecChain == InitChain /\ [][NextChain]_vars

(* The provider: Serve and Stop are called, in any order, under every      *)
(* setting of the two service flags.                                       *)

\* Values of a service flag: unset, spellings of true and of false, and a
\* value strconv.ParseBool rejects.
ServeEnvValues == EnvValues \cup {"1", "T"}

InitServe ==
    /\ BackendWith(0, {})
    /\ InitService
    /\ opts = TRUE
    /\ InitWorkers
    /\ pg = NoPg
    /\ \E env \in [ServiceFlags -> ServeEnvValues] :
         vs = [NoVs EXCEPT !.phase = "provider", !.env = env]

\* Serve is called by one caller at a time: not while an earlier call is
\* still serving.
ServeCall ==
    /\ vs.phase = "provider"
    /\ ~vs.srv.serving
    /\ vs' = [vs EXCEPT !.srv = Serve(vs.env, vs.srv)]
    /\ UNCHANGED <<backendVars, serviceVars, workerVars, probed, lastCall,
                   crashed, pg>>

StopCall ==
    /\ vs.phase = "provider"
    /\ vs' = [vs EXCEPT !.srv = Stop(vs.srv)]
    /\ UNCHANGED <<backendVars, serviceVars, workerVars, probed, lastCall,
                   crashed, pg>>

NextServe == ServeCall \/ StopCall

SpecServe == InitServe /\ [][NextServe]_vars

(* Create, then list: a client creates a volume without a requested size  *)
(* and, when that succeeded, lists all volumes in one page; a snapshot of  *)
(* the backend may be cached beforehand.                                   *)

InitCreateList ==
    /\ InitBackend
    /\ adminClient = TRUE /\ token = TRUE /\ system = TRUE
    /\ volCache \in {<<>>} \cup (IF Len(bvols) >= 2 THEN {bvols} ELSE {})
    /\ sdcMap = [g \in {ToUpper(n) : n \in NodeIds} |-> ""]
    /\ probed = TRUE
    /\ opts = TRUE
    /\ InitWorkers
    /\ vs = NoVs
    /\ \E l \in SeqLimits :
         pg = [NoPg EXCEPT !.script = "createlist", !.phase = "call1",
                           !.r = CreateReq([required |-> ZeroBytes, limit |-> l],
                                           TRUE, TRUE)]

CreateListCreate ==
    /\ pg.script = "createlist" /\ pg.phase = "call1"
    /\ CreateStart(W1, pg.r)
    /\ pg' = [pg EXCEPT !.phase = "wait1"]
    /\ UNCHANGED vs

CreateListCollect ==
    /\ pg.script = "createlist" /\ pg.phase = "wait1"
    /\ Finish(W1)
    /\ pg' = [pg EXCEPT !.phase = IF res[W1].code = "OK" THEN "call2" ELSE "failed",
                        !.created = res[W1].id]
    /\ UNCHANGED vs

CreateListList ==
    /\ pg.script = "createlist" /\ pg.phase = "call2"
    /\ ListStart(W1, ListReq("", 0))
    /\ pg' = [pg EXCEPT !.phase = "wait2"]
    /\ UNCHANGED vs

CreateListEnd ==
    /\ pg.script = "createlist" /\ pg.phase = "wait2"
    /\ ~crashed /\ pc[W1] = "done"
    /\ pg' = [pg EXCEPT !.phase = "end"]
    /\ UNCHANGED <<backendVars, serviceVars, workerVars, probed, lastCall,
                   crashed, vs>>

NextCreateList ==
    \/ Acquire(W1) /\ UNCHANGED <<vs, pg>>
    \/ CreateListCreate
    \/ CreateGet(W1) /\ UNCHANGED <<vs, pg>>
    \/ CreateClear(W1) /\ UNCHANGED <<vs, pg>>
    \/ CreateListCollect
    \/ CreateListList
    \/ ListLen(W1) /\ UNCHANGED <<vs, pg>>
    \/ ListFetch(W1) /\ UNCHANGED <<vs, pg>>
    \/ CreateListEnd

SpecCreateList == InitCreateList /\ [][NextCreateList]_vars

-----------------------------------------------------------------------------
(* Properties.                                                             *)

MutatingOps == {"CreateVolume", "DeleteVolume", "ControllerPublishVolume",
                "ControllerUnpublishVolume"}

\* C1: a client that pages through ListVolumes with k entries a page, k
\* below the number N of backend volumes, passing each nextToken back until
\* it is empty, has received every backend volume exactly once when the
\* listing ends, the backend being unchanged meanwhile.
C1_EachVolumeOnce ==
    (pg.script = "page" /\ pg.phase = "end") =>
        /\ Len(pg.got) = Len(bvols)
        /\ \A i \in DOMAIN bvols : \E j \in DOMAIN pg.got : pg.got[j] = bvols[i]

\* C2: for a non-zero required size s, the size validateVolSize returns is
\* a multiple of 8 GiB and is not below s.
C2_RoundsUpward ==
    (vs.phase = "out" /\ vs.cr.required # ZeroBytes /\ vs.err = "OK") =>
        /\ vs.sizeKiB % (VolSizeMultipleGiB * kiBytesInGiB) = 0
        /\ BytesGE(KiBToBytes(vs.sizeKiB), vs.cr.required)

\* The size in GiB the code arrives at for the request r: the least multiple
\* of 8 not below the whole GiB of the required size.  It is above a limit
\* of g GiB and a remainder below one GiB exactly when it is above g.
C3_RoundedGiB(r) ==
    LET kib == IF r.cr.required = ZeroBytes THEN DefaultVolumeSizeKiB
               ELSE r.cr.required.g * kiBytesInGiB + r.cr.required.k
        gib == kib \div kiBytesInGiB
    IN  CHOOSE m \in 0..(MaxGiB + VolSizeMultipleGiB) :
          m % VolSizeMultipleGiB = 0 /\ m >= gib /\ m < gib + VolSizeMultipleGiB

C3_AboveLimit(r) ==
    LET m == C3_RoundedGiB(r)
        lim == r.cr.limit
    IN  lim # ZeroBytes /\ m > lim.g

C3_State ==
    \A w \in Workers :
      req[w].op = "CreateVolume" /\ loc[w].probedAtStart =>
        /\ C3_AboveLimit(req[w]) =>
             /\ pc[w] = "done"
             /\ res[w].code = "OutOfRange"
             /\ calls[w] = {}
        /\ (pc[w] = "done" /\ res[w].code = "OutOfRange") => C3_AboveLimit(req[w])
        /\ "CreateVolume" \in calls[w] =>
             /\ lastCall.op = "CreateVolume"
             /\ lastCall.sizeKiB = C3_RoundedGiB(req[w]) * kiBytesInGiB

C3_Frame ==
    \A w \in Workers :
      (req'[w].op = "CreateVolume" /\ pc[w] = "idle" /\ pc'[w] = "done"
         /\ res'[w].code = "OutOfRange") =>
        UNCHANGED <<bvols, bvol, volCache>>

C4_DeleteMissingSucceeds ==
    \A w \in Workers :
      (req[w].op = "DeleteVolume" /\ pc[w] = "done" /\ loc[w].volErr = "notfound")
        => res[w].code = "OK"

C5_State ==
    \A w \in Workers :
      (req[w].op = "DeleteVolume" /\ loc[w].id # 0 /\ loc[w].mapped # {}) =>
        /\ pc[w] = "done"
        /\ res[w].code = "FailedPrecondition"
        /\ "RemoveVolume" \notin calls[w]

C5_Frame ==
    \A w \in Workers :
      (req'[w].op = "DeleteVolume" /\ pc[w] # "done" /\ pc'[w] = "done"
         /\ res'[w].code = "FailedPrecondition") =>
        UNCHANGED <<bvols, bvol, volCache>>

\* C5: DeleteVolume of a volume fetched with a non-empty list of mappings
\* returns FailedPrecondition at once, issues no remove call, and leaves
\* the backend's volumes and the cached snapshot as they were.
C5_DeleteInUse == [](C5_State) /\ [][C5_Frame]_vars

C5_Witness ==
    \E w \in Workers :
      /\ req[w].op = "DeleteVolume" /\ loc[w].mapped # {}
      /\ pc[w] = "done" /\ res[w].code = "FailedPrecondition"
      /\ bvol[req[w].vol].mapped # {} /\ volCache # <<>>

\* C6: when ControllerPublishVolume succeeded and the same request is sent
\* again, the second call succeeds (unless the gateway fails while the
\* volume is fetched), issues no map call, and leaves the volume's mappings
\* as the first call left them.
C6_PublishTwice ==
    (pg.script = "twice" /\ pg.phase = "end") =>
        /\ res[W1].code = "OK" \/ loc[W1].volErr = "transport"
        /\ "MapVolumeSdc" \notin calls[W1]
        /\ bvol[pg.r.vol].mapped = pg.mappedAfterFirst

C6_Witness ==
    /\ pg.script = "twice" /\ pg.phase = "end"
    /\ res[W1].code = "OK"
    /\ lastCall.op = "MapVolumeSdc" /\ lastCall.vol = pg.r.vol
    /\ lastCall.sdc \in pg.mappedAfterFirst

\* C7: whatever the interleaving of concurrent ControllerPublishVolume and
\* ControllerUnpublishVolume calls for different nodes, a volume that is not
\* enabled for multiple mappings is mapped to at most one host, and the
\* controller issues no map call for it while it is mapped to another host.
C7_SingleMapping ==
    /\ \A v \in Live : ~bvol[v].multi => Cardinality(bvol[v].mapped) <= 1
    /\ (lastCall.op = "MapVolumeSdc" /\ ~lastCall.multi) =>
         lastCall.before \ {lastCall.sdc} = {}

\* C8: CreateVolume, DeleteVolume, ControllerPublishVolume and
\* ControllerUnpublishVolume served before any ControllerProbe completed
\* successfully, a failed probe included, issue no backend call and return
\* FailedPrecondition.
C8_ProbeGuard ==
    \A w \in Workers :
      (req[w].op \in MutatingOps /\ ~loc[w].probedAtStart) =>
        /\ calls[w] = {}
        /\ pc[w] = "done" => res[w].code = "FailedPrecondition"

MultiWriterModes == {"MULTI_NODE_SINGLE_WRITER", "MULTI_NODE_MULTI_WRITER"}

\* Worker w has an answer of ValidateVolumeCapabilities about a volume that
\* was found.
Validated(w) ==
    /\ req[w].op = "ValidateVolumeCapabilities"
    /\ pc[w] = "done" /\ res[w].code = "OK"

\* C11: a capability list holding a MULTI_NODE_MULTI_WRITER or
\* MULTI_NODE_SINGLE_WRITER capability whose own access type is mount is
\* reported unsupported, whatever the volume's multi-mapping flag and
\* whatever else the list holds.
C11_MountMultiWriter ==
    \A w \in Workers :
      (/\ Validated(w)
       /\ \E i \in DOMAIN req[w].caps :
            req[w].caps[i].mode \in MultiWriterModes /\ ~req[w].caps[i].block)
        => ~res[w].supported

C15_BlockReadOnly ==
    \A w \in Workers :
      /\ (/\ Validated(w)
          /\ \E i \in DOMAIN req[w].caps :
               req[w].caps[i].block /\ req[w].caps[i].mode \in ReadOnlyModes)
           => ~res[w].supported
      /\ (/\ req[w].op = "ControllerPublishVolume"
          /\ req[w].block /\ req[w].mode \in ReadOnlyModes)
           => "MapVolumeSdc" \notin calls[w]

\* Worker w has finished a ControllerPublishVolume with access mode mode
\* and access type block for a volume that allows multi-mapping and was
\* fetched while mapped to other hosts than the requesting one.
PublishedToSecond(w, mode, block) ==
    /\ req[w].op = "ControllerPublishVolume"
    /\ req[w].mode = mode /\ req[w].block = block
    /\ pc[w] = "done"
    /\ loc[w].id # 0 /\ loc[w].multi
    /\ loc[w].sdcID # "" /\ loc[w].mapped # {} /\ loc[w].sdcID \notin loc[w].mapped

\* C13: ControllerPublishVolume with a mount capability and access mode
\* MULTI_NODE_READER_ONLY for a second node succeeds while the volume, which
\* allows multi-mapping, is mapped to a first node.
C13_MountReaderSecondNode ==
    \A w \in Workers :
      PublishedToSecond(w, "MULTI_NODE_READER_ONLY", FALSE) => res[w].code = "OK"

\* C14: ControllerPublishVolume with a block capability and access mode
\* MULTI_NODE_MULTI_WRITER for a second node succeeds while the volume,
\* which allows multi-mapping, is mapped to a first node.
C14_BlockWriterSecondNode ==
    \A w \in Workers :
      PublishedToSecond(w, "MULTI_NODE_MULTI_WRITER", TRUE) => res[w].code = "OK"

\* The four behaviours in their fixed order, and whether the variables env
\* enable one.
ChainOrder == <<"RequestIDInjector", "Logger", "SpecValidator", "Idempotent">>

Toggle(env, kind) ==
    LET on(n) == env[n] \notin {"0", "false"}
    IN  IF kind = "RequestIDInjector" THEN on(ReqIDInjectionEnabled)
        ELSE IF kind = "Logger" THEN on(ReqLoggingEnabled) \/ on(RepLoggingEnabled)
        ELSE IF kind = "SpecValidator" THEN on(SpecValidationEnabled)
        ELSE on(IdempEnabled)

\* C16: the chain newGrpcInterceptors builds is the fixed order request-ID
\* injection, logging, spec validation, idempotency restricted to the
\* enabled behaviours, each once.
C16_ChainOrder ==
    vs.phase = "chain" =>
        LET Enabled(kind) == Toggle(vs.env, kind)
        IN  [i \in DOMAIN vs.usi |-> vs.usi[i].kind] = SelectSeq(ChainOrder, Enabled)

C16_Witness ==
    /\ vs.phase = "chain"
    /\ vs.env[ReqIDInjectionEnabled] = "false"
    /\ vs.env[ReqLoggingEnabled] = "0" /\ vs.env[RepLoggingEnabled] = "yes"
    /\ Len(vs.usi) = 3
    /\ vs.usi[1].kind = "Logger" /\ vs.usi[2].kind = "SpecValidator"

\* C17: ControllerGetCapabilities returns exactly the four RPC capabilities
\* CREATE_DELETE_VOLUME, PUBLISH_UNPUBLISH_VOLUME, LIST_VOLUMES and
\* GET_CAPACITY, each once.
C17_FourCapabilities ==
    \A w \in Workers :
      (req[w].op = "ControllerGetCapabilities" /\ pc[w] = "done") =>
        /\ res[w].code = "OK"
        /\ Len(res[w].rpcs) = 4
        /\ {res[w].rpcs[i] : i \in DOMAIN res[w].rpcs} =
             {"CREATE_DELETE_VOLUME", "PUBLISH_UNPUBLISH_VOLUME", "LIST_VOLUMES",
              "GET_CAPACITY"}

C19_Offset(t) ==
    IF t = "" THEN 0
    ELSE (("1" :> 1) @@ ("2" :> 2) @@ ("3" :> 3) @@ ("4" :> 4) @@ ("5" :> 5))[t]

\* C19: with total the length of the listing a ListVolumes call pages over
\* (the backend's volumes when it fetches them, the cached snapshot
\* otherwise), a starting token above total fails with Aborted unless the
\* fetch itself failed; a nextToken returned is an offset t with
\* 0 < t < total, the starting offset plus the number of entries returned;
\* and nextToken is empty exactly when the page reaches total.
C19_Tokens ==
    \A w \in Workers :
      (req[w].op = "ListVolumes" /\ pc[w] = "done" /\ req[w].startToken # "x") =>
        LET start == C19_Offset(req[w].startToken)
            fetched == "GetVolume" \in calls[w]
            total == IF fetched THEN Len(bvols) ELSE Len(volCache)
            e == Len(res[w].entries)
            next == res[w].nextToken
        IN  /\ start > total =>
                 \/ res[w].code = "Aborted"
                 \/ fetched /\ res[w].code = "Internal"
            /\ res[w].code = "OK" =>
                 /\ next # "" =>
                      /\ next \in {"1", "2", "3", "4", "5"}
                      /\ 0 < C19_Offset(next) /\ C19_Offset(next) < total
                      /\ C19_Offset(next) = start + e
                 /\ next = "" <=> start + e = total

C19_Witness ==
    /\ req[W1].op = "ListVolumes" /\ pc[W1] = "done" /\ res[W1].code = "OK"
    /\ req[W1].startToken = "1" /\ req[W1].maxEntries = 1
    /\ res[W1].nextToken = "2"
    /\ Len(volCache) = 3

\* C20: after a successful CreateVolume without a requested size the
\* created volume has the default size of 16 GiB, a multiple of 8 GiB, and a
\* following ListVolumes with an empty token and maxEntries = 0 that gets
\* the listing from the gateway returns exactly the backend's current
\* volumes, the new one among them once, whether or not a snapshot was
\* cached before the create.
C20_CreateThenList ==
    (pg.script = "createlist" /\ pg.phase = "end") =>
        /\ bvol[pg.created].state = "live"
        /\ bvol[pg.created].sizeKiB = 16 * 1024 * 1024
        /\ bvol[pg.created].sizeKiB % (8 * 1024 * 1024) = 0
        /\ res[W1].code \in {"OK", "Internal"}
        /\ res[W1].code = "OK" =>
             /\ res[W1].entries = bvols
             /\ res[W1].nextToken = ""
             /\ Cardinality({i \in DOMAIN res[W1].entries :
                               res[W1].entries[i] = pg.created}) = 1

C20_Witness ==
    /\ pg.script = "createlist" /\ pg.phase = "end"
    /\ res[W1].code = "OK"
    /\ Len(res[W1].entries) = 3
    /\ res[W1].entries[3] = pg.created

-----------------------------------------------------------------------------
(* ControllerUnpublishVolume and the mapping set (controller.go 358-386).  *)

\* A finished ControllerUnpublishVolume whose node resolved to an SDC:
\* loc.mapped is the mapping list the handler fetched.
C21_State ==
    \A w \in Workers :
      (req[w].op = "ControllerUnpublishVolume" /\ pc[w] = "done"
         /\ loc[w].sdcID # "") =>
        LET id == loc[w].id
            sdc == loc[w].sdcID
        IN  IF sdc \notin loc[w].mapped
            THEN /\ res[w].code = "OK"
                 /\ "UnmapVolumeSdc" \notin calls[w]
                 /\ bvol[id].mapped = loc[w].mapped
            ELSE /\ "UnmapVolumeSdc" \in calls[w]
                 /\ res[w].code \in {"OK", "Internal"}
                 /\ res[w].code = "OK" =>
                      bvol[id].mapped = loc[w].mapped \ {sdc}
                 /\ res[w].code = "Internal" =>
                      bvol[id].mapped = loc[w].mapped

\* No step of ControllerUnpublishVolume touches another volume, the set of
\* volumes, or another node's mapping.
C21_Frame ==
    \A w \in Workers :
      req'[w].op = "ControllerUnpublishVolume" =>
        /\ bvols' = bvols
        /\ \A v \in VolIds :
             /\ bvol'[v].state = bvol[v].state
             /\ bvol[v].mapped \ bvol'[v].mapped \subseteq
                  (IF v = loc[w].id THEN {loc[w].sdcID} ELSE {})
             /\ bvol'[v].mapped \subseteq bvol[v].mapped

\* C21: ControllerUnpublishVolume for a volume that is not mapped to the
\* given node returns success, issues no unmap call and leaves the mapping
\* set as it was; for a volume mapped to the node exactly that node's
\* mapping is removed and every other mapping is kept.
C21_Unpublish == [](C21_State) /\ [][C21_Frame]_vars

C21_Witness ==
    \E w \in Workers :
      /\ req[w].op = "ControllerUnpublishVolume" /\ pc[w] = "done"
      /\ res[w].code = "OK"
      /\ loc[w].sdcID \in loc[w].mapped
      /\ loc[w].mapped \ {loc[w].sdcID} # {}
      /\ bvol[loc[w].id].mapped = loc[w].mapped \ {loc[w].sdcID}

-----------------------------------------------------------------------------
(* Mutations and the snapshot (controller.go 103-123, 202-212).            *)

\* C22: every CreateVolume or DeleteVolume call that changed the backend's
\* set of volumes (the gateway created the volume, or removed it) has
\* emptied the snapshot by the time the call returns.
C22_MutationClears ==
    \A w \in Workers :
      pc[w] = "done" =>
        /\ (req[w].op = "CreateVolume" /\ "CreateVolume" \in calls[w]
              /\ loc[w].id # 0 /\ bvol[loc[w].id].state = "live")
             => volCache = <<>>
        /\ (req[w].op = "DeleteVolume" /\ "RemoveVolume" \in calls[w]
              /\ bvol[req[w].vol].state # "live")
             => volCache = <<>>

-----------------------------------------------------------------------------
(* DeleteVolume against ControllerPublishVolume (controller.go 183-208,    *)
(* 304-317).                                                               *)

\* C23: whatever the interleaving of DeleteVolume with
\* ControllerPublishVolume on one volume, the remove call is never issued
\* for a volume that has a host mapping at the moment the call is made.
C23_NeverRemovesMapped ==
    lastCall.op = "RemoveVolume" => lastCall.before = {}

-----------------------------------------------------------------------------
(* The service flags (provider.go 202-235).                                *)

\* A flag is set when its variable holds a spelling of true.
C24_Set(e) == vs.env[e] \in {"1", "t", "T", "TRUE", "true", "True"}

\* The provider has made its first Serve call and has not been stopped.
C24_Served == vs.srv.server /\ ~vs.srv.closed

\* C24: with both service flags set Serve returns an error and the server
\* never serves; with the node flag alone the controller service is not
\* registered, with the controller flag alone the node service is not
\* registered, and the identity service is registered in every accepted
\* configuration.
C24_ServiceFlags ==
    vs.phase = "provider" =>
      /\ (C24_Set(NodeServiceOnly) /\ C24_Set(ControllerServiceOnly)) =>
           /\ ~vs.srv.serving
           /\ C24_Served => vs.srv.err # ""
      /\ (C24_Served
            /\ ~(C24_Set(NodeServiceOnly) /\ C24_Set(ControllerServiceOnly))) =>
           /\ vs.srv.err = "" /\ vs.srv.serving
           /\ "identity" \in vs.srv.registered
           /\ C24_Set(NodeServiceOnly) =>
                vs.srv.registered = {"identity", "node"}
           /\ C24_Set(ControllerServiceOnly) =>
                vs.srv.registered = {"identity", "controller"}
           /\ (~C24_Set(NodeServiceOnly) /\ ~C24_Set(ControllerServiceOnly)) =>
                vs.srv.registered = {"identity", "controller", "node"}

C24_Witness ==
    /\ vs.phase = "provider"
    /\ C24_Set(NodeServiceOnly) /\ C24_Set(ControllerServiceOnly)
    /\ vs.srv.server /\ vs.srv.err = "both" /\ ~vs.srv.serving

-----------------------------------------------------------------------------
(* Status texts (controller.go 601-616; node.go 22-36).                    *)

\* C25: every error an RPC returns carries a non-empty, human-readable
\* status text.
C25_ErrorsHaveText ==
    \A w \in Workers :
      (pc[w] = "done" /\ res[w].code # "OK") => res[w].msg # ""

-----------------------------------------------------------------------------
(* The SDC id cache (service.go 195-225).                                  *)

\* The key under which a node id is cached: its upper-case spelling.
C26_Key(n) == IF n = "a" THEN "A" ELSE n

\* A lookup that finds the node's key in the cache resolves to the cached
\* id and goes on without a FindSdc call.
C26_Hit ==
    \A w \in Workers :
      (pc[w] = "sdc_lookup" /\ pc'[w] # "sdc_lookup"
         /\ sdcMap[C26_Key(req[w].node)] # "") =>
        /\ loc'[w].sdcID = sdcMap[C26_Key(req[w].node)]
        /\ pc'[w] # "sdc_find"
        /\ "FindSdc" \notin calls'[w]

\* An entry of the cache stays as it is.
C26_Stable ==
    \A g \in DOMAIN sdcMap :
      sdcMap[g] # "" => (g \in DOMAIN sdcMap' /\ sdcMap'[g] = sdcMap[g])

\* C26: getSDCID keys its cache by the upper-cased GUID: once a GUID has
\* been resolved, every later resolution of any case variant of it returns
\* the same SDC id without a query to the backend, and a cached entry is
\* never changed or removed.
C26_CaseNormalized == [][C26_Hit /\ C26_Stable]_vars

C26_Witness ==
    \E w \in Workers :
      /\ req[w].node = "a" /\ pc[w] = "done"
      /\ sdcMap["A"] = "sdcA" /\ loc[w].sdcID = "sdcA"
      /\ "FindSdc" \notin calls[w]
      /\ "GetVolume" \in calls[w]

-----------------------------------------------------------------------------
(* Failures of the SDC lookup (service.go 212-217; controller.go 246-249,  *)
(* 353-356).                                                               *)

\* C27: when the backend reports no SDC for the node id the RPC returns
\* NotFound; when the query itself fails in transport the RPC returns
\* Unavailable, not NotFound; the cache is left as it was in both cases.
C27_LookupFailures ==
    \A w \in Workers :
      (pc[w] = "done" /\ loc[w].sdcErr # "") =>
        /\ loc[w].sdcErr = "nomatch" => res[w].code = "NotFound"
        /\ loc[w].sdcErr = "transport" => res[w].code = "Unavailable"
        /\ sdcMap[C26_Key(req[w].node)] = ""

-----------------------------------------------------------------------------
(* Locks and backend calls (controller.go 502-540, 569-582; service.go     *)
(* 195-225).                                                               *)

\* The steps at which a worker's gateway call is in flight.
C28_InFlight(w) ==
    pc[w] \in {"list_fetch", "create_get", "delete_remove", "sdc_find",
               "publish_map", "unpublish_unmap", "probe_new", "probe_auth",
               "probe_sys"}

\* A worker whose gateway call is in flight holds no lock.
C28_State == \A w \in Workers : C28_InFlight(w) => held[w] = {}

\* A step in which a worker issues a gateway call starts and ends with the
\* worker holding no lock.
C28_Step ==
    \A w \in Workers :
      (calls'[w] # calls[w] /\ calls'[w] # {}) =>
        (held[w] = {} /\ held'[w] = {})

\* C28: no RPC holds the volume-snapshot lock or the SDC-cache lock (or any
\* other lock of the service) while one of its backend calls is in flight.
C28_NoLockAcrossCalls == [](C28_State) /\ [][C28_Step]_vars

C28_Witness ==
    \E w \in Workers : \E o \in Workers \ {w} :
      /\ pc[w] = "sdc_find" /\ held[w] = {}
      /\ pc[o] = "list_fetch" /\ held[o] = {}
      /\ "GetVolume" \in calls[w]

-----------------------------------------------------------------------------
(* A listing that fits in one page (controller.go 517-582).                *)

\* ListVolumes without a starting token has fetched the listing, and the
\* listing fits in the page asked for.
C29_FitsOnePage(w) ==
    /\ req[w].op = "ListVolumes" /\ req[w].startToken = ""
    /\ "GetVolume" \in calls[w]
    /\ pc[w] \in {"list_copy", "done"}
    /\ ~(pc[w] = "done" /\ res[w].code = "Internal")
    /\ req[w].maxEntries = 0 \/ req[w].maxEntries >= loc[w].lvols

C29_State ==
    \A w \in Workers :
      C29_FitsOnePage(w) =>
        /\ ~crashed
        /\ pc[w] = "done" =>
             /\ res[w].code = "OK"
             /\ res[w].entries = bvols
             /\ res[w].nextToken = ""

C29_Frame ==
    \A w \in Workers :
      (req'[w].op = "ListVolumes" /\ req'[w].startToken = ""
         /\ (req'[w].maxEntries = 0 \/ req'[w].maxEntries >= Len(bvols))) =>
        volCache' = volCache

\* C29: when the whole listing fits in one page (maxEntries is 0 or at
\* least the number of volumes), ListVolumes with an empty starting token
\* returns exactly the listing it has just fetched, completes without a
\* failure, and does not populate the snapshot.
C29_OnePage == [](C29_State) /\ [][C29_Frame]_vars

-----------------------------------------------------------------------------
(* The snapshot (controller.go 125-129, 527-537).                          *)

\* The list a worker holds for the store is the backend's whole listing as
\* its single GetVolume call returned it.
C30_SingleFetch ==
    \A w \in Workers :
      (pc'[w] = "list_store" /\ pc[w] # "list_store") =>
        loc'[w].sioVols = bvols

\* A step that changes the snapshot empties it or replaces it as a whole by
\* the list a worker has fetched.
C30_WholeOrEmpty ==
    volCache' # volCache =>
      \/ volCache' = <<>>
      \/ \E w \in Workers : pc[w] = "list_store" /\ volCache' = loc[w].sioVols

\* C30: the snapshot is always either empty or a complete backend listing
\* taken by a single fetch; it is only replaced as a whole or emptied,
\* never updated in part.
C30_Snapshot == [][C30_SingleFetch /\ C30_WholeOrEmpty]_vars

C30_Witness ==
    \E w \in Workers :
      /\ req[w].op = "ListVolumes" /\ pc[w] = "done" /\ res[w].code = "OK"
      /\ "GetVolume" \in calls[w]
      /\ volCache = bvols /\ Len(volCache) = 2
      /\ Len(res[w].entries) = 1

-----------------------------------------------------------------------------
(* The reason of an unsupported capability list (controller.go 441-473).   *)

\* The first rule a capability fails, "" when it fails none.
C31_CapReason(vc, multi, isBlock) ==
    IF vc.mode = "UNKNOWN" THEN errUnknownAccessMode
    ELSE IF vc.mode = "MULTI_NODE_READER_ONLY"
    THEN (IF ~multi THEN errNoMultiMap ELSE "")
    ELSE IF vc.mode \in {"MULTI_NODE_SINGLE_WRITER", "MULTI_NODE_MULTI_WRITER"}
    THEN (IF ~multi THEN errNoMultiMap
          ELSE IF ~isBlock THEN errNoMultiNodeWriter ELSE "")
    ELSE ""

\* The reason of the first failing capability in request order.
C31_FirstReason(vcs, multi) ==
    LET failing == { i \in DOMAIN vcs :
                       C31_CapReason(vcs[i], multi, accTypeIsBlock(vcs)) # "" }
    IN  IF failing = {} THEN ""
        ELSE C31_CapReason(vcs[Min(failing)], multi, accTypeIsBlock(vcs))

\* C31: when a capability list holds several failing capabilities,
\* valVolumeCaps reports the reason of the first failing capability in
\* request order, and for a multi-writer capability failing both rules the
\* first failing rule, not a later one.
C31_FirstFailingReason ==
    \A w \in Workers :
      (req[w].op = "ValidateVolumeCapabilities" /\ pc[w] = "done"
         /\ res[w].code = "OK" /\ ~res[w].supported) =>
        res[w].message = C31_FirstReason(req[w].caps, loc[w].multi)

-----------------------------------------------------------------------------
(* Publish against valVolumeCaps (controller.go 251-320, 431-474).         *)

\* C32: ControllerPublishVolume issues the map call only for a capability
\* that valVolumeCaps reports as supported for the volume; it never maps a
\* volume for a multi-writer mode with a mount capability, or for a
\* multi-node mode when the volume does not allow multi-mapping.
C32_MapsOnlySupported ==
    \A w \in Workers :
      (req[w].op = "ControllerPublishVolume" /\ "MapVolumeSdc" \in calls[w]) =>
        valVolumeCaps(<<Cap(req[w].mode, req[w].block)>>, loc[w].multi).supported

-----------------------------------------------------------------------------
(* Publish of a volume mapped to other hosts (controller.go 266-302).      *)

\* A finished ControllerPublishVolume whose node resolved to an SDC and
\* whose volume was fetched mapped, but not to that SDC.
C33_OtherHosts(w) ==
    /\ req[w].op = "ControllerPublishVolume" /\ pc[w] = "done"
    /\ loc[w].id # 0 /\ loc[w].sdcID # ""
    /\ loc[w].mapped # {} /\ loc[w].sdcID \notin loc[w].mapped

-----------------------------------------------------------------------------
(* The parameters of the map call (controller.go 304-317).                 *)

\* C34: every map call ControllerPublishVolume issues targets exactly the
\* resolved host, never all hosts, and is non-exclusive: it allows the
\* volume to keep its mappings to other hosts.
C34_MapCallParameters ==
    \A w \in Workers :
      (req[w].op = "ControllerPublishVolume" /\ pc[w] = "done"
         /\ "MapVolumeSdc" \in calls[w]) =>
        /\ lastCall.op = "MapVolumeSdc"
        /\ lastCall.sdc = loc[w].sdcID /\ lastCall.vol = req[w].vol
        /\ ~lastCall.allSdcs
        /\ lastCall.allowMultipleMappings

-----------------------------------------------------------------------------
(* The backend session (controller.go 681-716).                            *)

\* C35: across any sequence or interleaving of ControllerProbe calls with a
\* complete configuration and a healthy backend, the session is established
\* once: Authenticate and FindSystem are each called at most once, and a
\* probe that starts after a successful one makes no backend call.
C35_SessionOnce ==
    pg.script = "probes" =>
      /\ pg.auths <= 1
      /\ pg.finds <= 1
      /\ \A w \in Workers :
           (req[w].op = "ControllerProbe" /\ loc[w].probedAtStart) =>
             calls[w] = {}

-----------------------------------------------------------------------------
(* ListVolumes against clearCache (controller.go 502-508, 565-582,         *)
(* 125-129).                                                               *)

\* C36: under any interleaving of ListVolumes with CreateVolume or
\* DeleteVolume, ListVolumes never reads the snapshot at or past its
\* current length: it returns a page or an error status and never fails
\* with an out-of-range access.
C36_NeverOutOfRange ==
    /\ ~crashed
    /\ \A w \in Workers :
         (req[w].op = "ListVolumes" /\ pc[w] = "list_copy" /\ Holds(w)) =>
           loc[w].n <= Len(volCache)

-----------------------------------------------------------------------------
(* A stale snapshot (controller.go 103-123, 517-540).                      *)

\* C37: whenever no RPC is in flight, a non-empty snapshot equals the
\* backend's current listing: no interleaving of ListVolumes with
\* CreateVolume or DeleteVolume and no partially failed CreateVolume leaves
\* behind a snapshot taken before the latest create or delete.
C37_NoStaleSnapshot ==
    ((\A w \in Workers : pc[w] = "idle") /\ volCache # <<>>) =>
      volCache = bvols

-----------------------------------------------------------------------------
(* The node service (node.go) and the idempotency provider                 *)
(* (controller.go 736-857).  The SDC's attachment list, the mount helpers  *)
(* and the gateway are collaborators: the outcome of each call is an       *)
(* input of the step.                                                      *)

\* The block devices of the SDC and the target paths of the requests.
Devices == {"/dev/scinia", "/dev/scinib"}
Paths == {"/t1", "/t2"}

\* Calls to publishVolume and unpublishVolume followed in one behaviour.
MaxActions == 2

\* Mutant: the first attachment of the list is taken, whatever its volume.
getMappedVol_mut(id, localVols, mapOK) ==
    IF ~mapOK THEN [code |-> "Internal", vol |-> NoMappedVol]
    ELSE IF localVols = <<>>
    THEN [code |-> "Unavailable", vol |-> NoMappedVol]
    ELSE [code |-> "OK", vol |-> localVols[1]]

\* node.go 76-96.  mapOK: goscaleio.GetLocalVolumeMap returned no error.
\* The loop stops at the first attachment with the id.
getMappedVol(id, localVols, mapOK) ==
    IF ~mapOK THEN [code |-> "Internal", vol |-> NoMappedVol]
    ELSE LET hits == {i \in 1..Len(localVols) : localVols[i].VolumeID = id}
         IN  IF hits = {}
             THEN [code |-> "Unavailable", vol |-> NoMappedVol]
             ELSE [code |-> "OK", vol |-> localVols[Min(hits)]]

\* The node has served a call: its outcome and the helper calls made so far.
NodeServed(r, acts) ==
    /\ vs' = [vs EXCEPT !.host.last = r, !.host.actions = acts]
    /\ UNCHANGED <<backendVars, serviceVars, workerVars, probed, lastCall,
                   crashed, pg>>

\* NodePublishVolume (node.go 38-55) with helper publishVolume, and
\* NodeUnpublishVolume (57-74) with helper unpublishVolume: the attachment
\* is resolved, then the helper is called with its device; the helper's
\* error is returned as it is.
NodePubUnpub(op, helper) ==
    /\ vs.phase = "node"
    /\ \E id \in VolIds, mapOK \in BOOLEAN, ok \in BOOLEAN :
         LET m == getMappedVol(id, vs.host.localVols, mapOK)
             call == [NoNodeRes EXCEPT !.op = op, !.id = id]
         IN  IF m.code # "OK"
             THEN NodeServed([call EXCEPT !.code = m.code, !.failed = TRUE],
                             vs.host.actions)
             ELSE /\ Len(vs.host.actions) < MaxActions
                  /\ NodeServed([call EXCEPT !.code = IF ok THEN "OK" ELSE "Error",
                                             !.failed = ~ok, !.vol = m.vol],
                                Append(vs.host.actions, helper))

NodePublishVolume == NodePubUnpub("NodePublishVolume", "publishVolume")
NodeUnpublishVolume == NodePubUnpub("NodeUnpublishVolume", "unpublishVolume")

\* IsNodePublished (controller.go 826-857).  devOK: GetDevice returned no
\* error; mntOK and mnts: getDevMounts returned no error, and the paths of
\* the mounts it returned.
isNodePublished(id, targetPath, localVols, mapOK, devOK, mntOK, mnts) ==
    LET m == getMappedVol(id, localVols, mapOK)
        call == [NoNodeRes EXCEPT !.op = "IsNodePublished", !.id = id]
    IN  IF m.code # "OK"
        THEN [call EXCEPT !.code = "OK", !.failed = TRUE]
        ELSE IF ~devOK
        THEN [call EXCEPT !.code = "Internal", !.failed = TRUE, !.vol = m.vol]
        ELSE IF ~mntOK
        THEN [call EXCEPT !.code = "Error", !.failed = TRUE, !.vol = m.vol]
        ELSE [call EXCEPT !.code = "OK", !.vol = m.vol,
                          !.published = targetPath \in mnts]

\* What the host may answer: the list cannot be read; no block device;
\* the mounts cannot be read; the paths the device is mounted at.
HostAnswers ==
    {[mapOK |-> FALSE, devOK |-> FALSE, mntOK |-> FALSE, mnts |-> {}],
     [mapOK |-> TRUE, devOK |-> FALSE, mntOK |-> FALSE, mnts |-> {}],
     [mapOK |-> TRUE, devOK |-> TRUE, mntOK |-> FALSE, mnts |-> {}]}
    \cup {[mapOK |-> TRUE, devOK |-> TRUE, mntOK |-> TRUE, mnts |-> m] :
            m \in SUBSET Paths}

IsNodePublished ==
    /\ vs.phase = "node"
    /\ \E r \in {isNodePublished(id, targetPath, vs.host.localVols, h.mapOK,
                                  h.devOK, h.mntOK, h.mnts) :
                    id \in VolIds, targetPath \in Paths, h \in HostAnswers} :
         NodeServed(r, vs.host.actions)

\* s.adminClient.FindVolumeID(name): found is the id of the live volume of
\* that name, 0 if there is none.
FindVolumeID(found, up) ==
    IF ~GwOK(up) THEN [err |-> "transport", id |-> 0]
    ELSE IF found = 0 THEN [err |-> "notfound", id |-> 0]
    ELSE [err |-> "", id |-> found]

\* GetVolumeID (controller.go 736-754) past requireProbe: the gateway's
\* "Not found" is the empty id without an error, any other error is
\* returned as it is.
GetVolumeID(fv) ==
    IF fv.err = "notfound" THEN [code |-> "OK", failed |-> TRUE, id |-> 0]
    ELSE IF fv.err # "" THEN [code |-> "Error", failed |-> TRUE, id |-> 0]
    ELSE [code |-> "OK", failed |-> FALSE, id |-> fv.id]

\* GetVolumeInfo (controller.go 756-790); id 0 is the empty id.  perr:
\* requireProbe returned an error.  fv, up: the outcome of FindVolumeID and
\* the state of the transport at getVolByID.
getVolumeInfo(id, hasName, perr, fv, up) ==
    LET call == [NoNodeRes EXCEPT !.op = "GetVolumeInfo", !.id = id]
        g == GetVolumeID(fv)
        id2 == IF id = 0 THEN g.id ELSE id
    IN  IF perr THEN [call EXCEPT !.code = "FailedPrecondition"]
        ELSE IF id = 0 /\ ~hasName THEN [call EXCEPT !.code = "Internal"]
        ELSE IF id = 0 /\ g.code # "OK"
        THEN [call EXCEPT !.code = g.code, !.failed = g.failed]
        ELSE IF id2 = 0 THEN [call EXCEPT !.code = "OK", !.failed = g.failed]
        ELSE LET vol == getVolByID(id2, up)
             IN  IF vol.err = "notfound"
                 THEN [call EXCEPT !.code = "OK", !.failed = TRUE]
                 ELSE IF vol.err # ""
                 THEN [call EXCEPT !.code = "Error", !.failed = TRUE]
                 ELSE [call EXCEPT !.code = "OK", !.info = id2]

\* requireProbe lets a call pass only on a service that has its client.
GetVolumeInfo ==
    /\ vs.phase = "node"
    /\ LET fvs == {FindVolumeID(found, up) :
                     found \in Live \cup {0}, up \in BOOLEAN}
           perrs == {TRUE} \cup {e \in {FALSE} : adminClient}
           byID == {getVolumeInfo(id, FALSE, perr, FindVolumeID(0, TRUE), up) :
                      id \in VolIds, perr \in perrs, up \in BOOLEAN}
           byName == {getVolumeInfo(0, hasName, perr, fv, up) :
                        hasName \in BOOLEAN, perr \in perrs, fv \in fvs,
                        up \in BOOLEAN}
       IN  \E r \in byID \cup byName : NodeServed(r, vs.host.actions)

\* The attachment lists of a node with the two devices: each device
\* exposes at most one volume.
LocalVolLists ==
    {<<>>}
    \cup {<<SdcMappedVolume(v, d)>> : v \in VolIds, d \in Devices}
    \cup {<<SdcMappedVolume(v[1], d[1]), SdcMappedVolume(v[2], d[2])>> :
            v \in VolIds \X VolIds,
            d \in {e \in Devices \X Devices : e[1] # e[2]}}

(* The node service and the idempotency provider serve calls one after the *)
(* other on a probed service, for every attachment list of the node.       *)
InitNode ==
    /\ BackendWith(MaxVols - 1, {})
    /\ InitProbedService
    /\ opts = TRUE
    /\ InitWorkers
    /\ pg = NoPg
    /\ \E l \in LocalVolLists :
         vs = [NoVs EXCEPT !.phase = "node", !.host.localVols = l]

NextNode ==
    \/ NodePublishVolume
    \/ NodeUnpublishVolume
    \/ IsNodePublished
    \/ GetVolumeInfo

SpecNode == InitNode /\ [][NextNode]_vars

-----------------------------------------------------------------------------
(* Failing collaborator calls of the node service and the idempotency      *)
(* provider.                                                               *)

\* C38: a call whose backend or host collaborator call failed returns an
\* error.  The three idempotent successes of the protocol (delete of a
\* missing volume, unpublish of a detached volume, re-publish to the same
\* host) belong to DeleteVolume, ControllerUnpublishVolume and
\* ControllerPublishVolume; NodePublishVolume, NodeUnpublishVolume,
\* IsNodePublished and GetVolumeInfo have no such case.
C38_NoSilentSuccess ==
    vs.host.last.failed => vs.host.last.code # "OK"

\* The attachment list l holds an attachment of volume id.
C39_Attached(id, l) == \E i \in 1..Len(l) : l[i].VolumeID = id

\* getMappedVol on the node's attachment list, for every volume id.
C39_Resolver ==
    \A id \in VolIds :
      LET l == vs.host.localVols
          m == getMappedVol(id, l, TRUE)
      IN  IF C39_Attached(id, l)
          THEN /\ m.code = "OK"
               /\ m.vol.VolumeID = id
               /\ \E i \in 1..Len(l) : l[i] = m.vol
          ELSE m.code = "Unavailable" /\ m.vol = NoMappedVol

\* The last NodePublishVolume or NodeUnpublishVolume: with the attachment
\* list at hand it worked on an attachment of the requested volume, or
\* returned Unavailable when there is none.
C39_Served ==
    LET r == vs.host.last
    IN  (r.op \in {"NodePublishVolume", "NodeUnpublishVolume"}
         /\ r.code # "Internal") =>
          IF C39_Attached(r.id, vs.host.localVols)
          THEN r.vol.VolumeID = r.id /\ r.code \in {"OK", "Error"}
          ELSE r.code = "Unavailable"

\* A call whose resolution fails (the list cannot be read, or holds no
\* attachment of the volume) calls neither publishVolume nor
\* unpublishVolume.
C39_NoActionOnFailure ==
    (\/ ~C39_Attached(vs'.host.last.id, vs.host.localVols)
     \/ vs'.host.last.code = "Internal") =>
      vs'.host.actions = vs.host.actions

\* C39: getMappedVol returns the local attachment whose volume id equals
\* the requested id whenever the attachment list holds one, and fails with
\* Unavailable when it holds none; NodePublishVolume and
\* NodeUnpublishVolume make no mount or unmount call when resolution fails.
C39_Resolution ==
    /\ [](vs.phase = "node" => C39_Resolver /\ C39_Served)
    /\ [][C39_NoActionOnFailure]_vars

\* On a node with two volumes attached, one was published, and a later
\* NodeUnpublishVolume for a volume that is not attached failed and left
\* the helper calls as they were.
C39_Witness ==
    /\ Len(vs.host.localVols) = 2
    /\ vs.host.localVols[1].VolumeID # vs.host.localVols[2].VolumeID
    /\ vs.host.actions = <<"publishVolume">>
    /\ vs.host.last.op = "NodeUnpublishVolume"
    /\ vs.host.last.code = "Unavailable"

-----------------------------------------------------------------------------
(* Provisioning type: one worker serves CreateVolume requests with and     *)
(* without the thickprovisioning parameter on a probed service started     *)
(* under every setting of the thick-provisioning variable.                 *)

\* Values of the parameter and of the variable: spellings of true and of
\* false, and values strconv.ParseBool rejects.
ThickValues == {"", "true", "false", "1", "0", "T", "yes"}

ProvReqs ==
    {CreateReq([required |-> ZeroBytes, limit |-> ZeroBytes], TRUE, hn) :
       hn \in BOOLEAN}
    \cup {CreateThickReq([required |-> ZeroBytes, limit |-> ZeroBytes], tp) :
            tp \in ThickValues}

InitProv ==
    /\ BackendWith(MaxVols - 2, {})
    /\ InitProbedService
    /\ opts = TRUE
    /\ InitWorkers
    /\ pg = NoPg
    /\ \E env \in {<<>>} \cup [{EnvThick} -> ThickValues] :
         vs = [NoVs EXCEPT !.env = env]

NextProv ==
    \/ Acquire(W1) /\ UNCHANGED <<vs, pg>>
    \/ /\ pc[W1] = "idle"
       /\ \E r \in ProvReqs : CreateStart(W1, r)
       /\ UNCHANGED <<vs, pg>>
    \/ CreateGet(W1) /\ UNCHANGED <<vs, pg>>
    \/ CreateClear(W1) /\ UNCHANGED <<vs, pg>>
    \/ Finish(W1) /\ UNCHANGED <<vs, pg>>

SpecProv == InitProv /\ [][NextProv]_vars

\* The provisioning type the request r asks for, by the spellings
\* strconv.ParseBool accepts; without one, the configured default.
C40_Expected(r) ==
    IF r.hasThick /\ r.thick \in {"1", "t", "T", "TRUE", "true", "True"}
    THEN thickProvisioned
    ELSE IF r.hasThick /\ r.thick \in {"0", "f", "F", "FALSE", "false", "False"}
    THEN thinProvisioned
    ELSE IF OptsThick THEN thickProvisioned
    ELSE thinProvisioned

\* C40: the provisioning type CreateVolume sends to the backend is Thick
\* or Thin as the request's thickprovisioning parameter says whenever the
\* parameter parses as a boolean, whatever the configured default; with
\* the parameter absent or unparsable it is the configured default, Thick
\* iff the thick-provisioning option is set.
C40_SentType ==
    [][\A w \in Workers :
         (pc[w] = "idle" /\ "CreateVolume" \in calls'[w]) =>
           /\ lastCall'.op = "CreateVolume"
           /\ lastCall'.volType = C40_Expected(req'[w])]_vars

\* A volume was created thin on a service configured for thick
\* provisioning, by a request whose parameter says false.
C40_Witness ==
    /\ OptsThick
    /\ pc[W1] = "create_get"
    /\ req[W1].hasThick /\ req[W1].thick = "false"
    /\ lastCall.op = "CreateVolume" /\ lastCall.vol # 0
    /\ lastCall.volType = thinProvisioned

====
